---- MODULE Spec2Model ----
(***************************************************************************)
(* File-server backend: the node tree, the share table, the event journal  *)
(* and the handlers that mutate them.  The relational store is modelled as *)
(* a record of tables (db); every handler is an operator from the store    *)
(* and a request to the new store, the HTTP status and the hub publishes.  *)
(***************************************************************************)
EXTENDS Integers, Sequences, FiniteSets, TLC

\* ---------------------------------------------------------------- universe

\* The two accounts db/init.sql seeds (admin, user), by their SERIAL ids.
Users == {1, 2}
\* File and folder names a request may carry.
Names == {"a", "b"}
\* Number of 21-character node ids the generator may hand out.
MaxNodes == 3
NodeIds == 1..MaxNodes
\* Number of rows the shares table may hold.
MaxShares == 2
ShareIds == 1..MaxShares
\* Rows the journal may grow by: requests are served until it has.
MaxJournal == 2
\* nil for *string parent ids, *models.Node results and *int64 owner ids.
NoNode == 0
Permissions == {"read", "write"}
\* Which statement of the transaction the store makes fail: none of them,
\* the first LogEvent, the second LogEvent (the owner's row), or the commit.
Faults == {"none", "log1", "log2", "commit"}
\* An upload's transaction may also fail at the blob save.
UploadFaults == Faults \cup {"save"}
\* Sizes of the uploaded files, and the owners' storage_quota_bytes.
FileSizes == {1}
QuotaBytes == 2
\* Move requests that may be between their checks and their transaction.
MaxInFlight == 2
\* Rows one read of the journal returns: the LIMIT of GetEventsSince, which is
\* 100 in the query and scaled down here so that a page fills up.
PageSize == 2
\* Connections the push channel may open.
MaxConns == 3
ConnIds == 1..MaxConns
\* Capacity of a connection's send channel: make(chan []byte, 256) in
\* NewClient, scaled down here so that a queue fills up.
SendCap == 2
\* The event types of the messages published to the connections.
Events == {"e1", "e2"}
\* Refresh tokens the generator hands out before the server stops issuing.
MaxTokens == 5

VARIABLES
    nodes,      \* table nodes: id -> row
    shares,     \* table shares: set of rows
    favorites,  \* table user_favorites: set of <<user_id, node_id>>
    journal,    \* table event_journal: rows in id order
    used,       \* users.storage_used_bytes, per user
    blobs,      \* node ids the blob storage holds a file for
    pushed,     \* the hub publishes made by the request served last
    resp,       \* the request served last and its HTTP status
    moves,      \* move requests past their checks, before their transaction
    clients,    \* Hub.clients: user id -> set of registered connections
    conn,       \* the Client of every connection and where its goroutines are
    running,    \* what the goroutine of Hub.Run has received and not yet done
    sessions,   \* table sessions: set of rows
    refreshing, \* refresh requests past their SELECT, before their DELETE
    generated,  \* refresh tokens the nanoid generator has returned so far
    uploads,    \* upload requests past their quota check, before their transactions
    writing,    \* transactions that have inserted their journal row, before commit
    received    \* per user, the journal ids a polling client has received

hubVars == <<clients, conn, running>>
authVars == <<sessions, refreshing, generated>>
syncVars == <<writing, received>>

vars == <<nodes, shares, favorites, journal, used, blobs, pushed, resp, moves,
          clients, conn, running, sessions, refreshing, generated, uploads,
          writing, received>>

DB == [nodes |-> nodes, shares |-> shares, favorites |-> favorites,
       journal |-> journal, used |-> used]

\* ------------------------------------------------------------ store: queries

RECURSIVE Up(_, _, _)
Up(ns, frontier, seen) ==
    LET next == ({ns[i].parent_id : i \in frontier} \cap DOMAIN ns) \ seen
    IN IF next = {} THEN seen ELSE Up(ns, next, seen \cup next)

\* The recursive CTE node_parents: the ids reached from start through parent_id.
node_parents(ns, start) ==
    IF start \in DOMAIN ns THEN Up(ns, {start}, {start}) ELSE {}

RECURSIVE Down(_, _, _)
Down(ns, frontier, seen) ==
    LET next == {i \in DOMAIN ns : ns[i].parent_id \in frontier} \ seen
    IN IF next = {} THEN seen ELSE Down(ns, next, seen \cup next)

\* The recursive CTE node_children: start and every row below it.
node_children(ns, start) ==
    IF start \in DOMAIN ns THEN Down(ns, {start}, {start}) ELSE {}

HasAccessToNode(db, nodeID, recipientID) ==
    \E s \in db.shares :
        s.recipient_id = recipientID /\ s.node_id \in node_parents(db.nodes, nodeID)

GetNodeIfAccessibleOwnShare(db, nodeID, userID) ==
    IF nodeID \in DOMAIN db.nodes /\ ~db.nodes[nodeID].deleted
       /\ (db.nodes[nodeID].owner_id = userID
           \/ \E s \in db.shares : s.recipient_id = userID /\ s.node_id = nodeID)
    THEN nodeID ELSE NoNode

\* The id of the live node when userID may read it, NoNode (nil) otherwise.
GetNodeIfAccessible(db, nodeID, userID) ==
    IF nodeID \in DOMAIN db.nodes /\ ~db.nodes[nodeID].deleted
       /\ (db.nodes[nodeID].owner_id = userID \/ HasAccessToNode(db, nodeID, userID))
    THEN nodeID ELSE NoNode

GetNodeByID(db, id, ownerID) ==
    IF id \in DOMAIN db.nodes /\ ~db.nodes[id].deleted /\ db.nodes[id].owner_id = ownerID
    THEN id ELSE NoNode

GetNodesByParentID(db, ownerID, parentID) ==
    {i \in DOMAIN db.nodes : db.nodes[i].owner_id = ownerID
                             /\ db.nodes[i].parent_id = parentID
                             /\ ~db.nodes[i].deleted}

CheckWritePermissionAnyShare(db, userID, parentID) ==
    IF parentID = NoNode THEN TRUE
    ELSE LET np == node_parents(db.nodes, parentID)
         IN \/ \E i \in np : db.nodes[i].owner_id = userID
            \/ \E s \in db.shares : s.recipient_id = userID /\ s.node_id \in np

CheckWritePermission(db, userID, parentID) ==
    IF parentID = NoNode THEN TRUE
    ELSE LET np == node_parents(db.nodes, parentID)
         IN \/ \E i \in np : db.nodes[i].owner_id = userID
            \/ \E s \in db.shares : /\ s.recipient_id = userID
                                    /\ s.permissions = "write"
                                    /\ s.node_id \in np

\* The recursive term of a CTE written with UNION ALL goes on for ever when a
\* row it reaches from start lies below itself.
LoopsBelow(ns, start) ==
    \E c \in node_children(ns, start) : c \in Down(ns, {c}, {})

IsDescendantOfSelfOnly(db, nodeId, potentialParentId) ==
    [isDescendant |-> nodeId = potentialParentId, err |-> "none"]

\* The ids are compared first.  The query then walks down from nodeId: EXISTS
\* ends it at the first row with the id potentialParentId; without such a row
\* it ends when the walk does, and a walk that never ends is ended by the
\* cancellation of the request, with an error.
IsDescendantOf(db, nodeId, potentialParentId) ==
    IF nodeId = potentialParentId
    THEN [isDescendant |-> TRUE, err |-> "none"]
    ELSE IF potentialParentId \in node_children(db.nodes, nodeId)
    THEN [isDescendant |-> TRUE, err |-> "none"]
    ELSE IF LoopsBelow(db.nodes, nodeId)
    THEN [isDescendant |-> FALSE, err |-> "context canceled"]
    ELSE [isDescendant |-> FALSE, err |-> "none"]

\* ------------------------------------------------------- store: constraints

\* unique_name_in_parent, unique_name_in_folder and unique_name_in_root: no two
\* rows of one owner share a name under the same parent, and none of the rows
\* whose parent_id is NULL (live roots and trashed rows alike) share a name.
UniqueNames(ns) ==
    \A i, j \in DOMAIN ns :
        (i # j /\ ns[i].owner_id = ns[j].owner_id /\ ns[i].name = ns[j].name)
            => ns[i].parent_id # ns[j].parent_id

\* nodes.parent_id REFERENCES nodes(id).
ParentsExist(ns) ==
    \A i \in DOMAIN ns : ns[i].parent_id = NoNode \/ ns[i].parent_id \in DOMAIN ns

\* ---------------------------------------------------------- store: statements
\* A statement takes the store inside the transaction and yields the store
\* after it and the error ("none" when it succeeded).

Ok(db) == [db |-> db, err |-> "none"]
Err(db, e) == [db |-> db, err |-> e]

\* Node ids are random; the model hands out the least id not in the table.
NodeExists(db, id) == id \in DOMAIN db.nodes
FreeIds(db) == {i \in NodeIds : ~NodeExists(db, i)}
generateUniqueID(db) == CHOOSE i \in FreeIds(db) : \A j \in FreeIds(db) : i <= j

\* A row as the handlers serialise it (models.Node without the timestamps).
NodeJSON(id, row) ==
    [id |-> id, owner_id |-> row.owner_id, parent_id |-> row.parent_id,
     name |-> row.name, node_type |-> row.node_type, size_bytes |-> row.size_bytes]

NewRow(ownerID, parentID, name, nodeType, sizeBytes) ==
    [owner_id |-> ownerID, parent_id |-> parentID, name |-> name,
     node_type |-> nodeType, size_bytes |-> sizeBytes,
     deleted |-> FALSE, original_parent_id |-> NoNode]

\* INSERT INTO nodes: 23503 when parent_id names no row, 23505 when a unique
\* index rejects the name.
CreateNode(db, id, row) ==
    LET ns == [i \in DOMAIN db.nodes \cup {id} |->
                    IF i = id THEN row ELSE db.nodes[i]]
    IN IF ~ParentsExist(ns) THEN Err(db, "23503")
       ELSE IF ~UniqueNames(ns) THEN Err(db, "23505")
       ELSE Ok([db EXCEPT !.nodes = ns])

LogEvent(db, userID, eventType, payload, fails) ==
    IF fails THEN Err(db, "internal")
    ELSE Ok([db EXCEPT !.journal =
                Append(@, [user_id |-> userID, event_type |-> eventType,
                           payload |-> payload])])

\* The rows MoveNodeToTrash updates: the live row id of ownerID and every row
\* reached from it through parent_id.
nodes_to_delete(db, id, ownerID) ==
    IF id \in DOMAIN db.nodes /\ db.nodes[id].owner_id = ownerID /\ ~db.nodes[id].deleted
    THEN node_children(db.nodes, id) ELSE {}

MoveNodeToTrashOneRow(db, id, ownerID) ==
    LET hit == nodes_to_delete(db, id, ownerID) \cap {id}
        ns  == [i \in DOMAIN db.nodes |->
                   IF i \in hit
                   THEN [db.nodes[i] EXCEPT !.deleted = TRUE,
                                            !.original_parent_id = db.nodes[i].parent_id,
                                            !.parent_id = NoNode]
                   ELSE db.nodes[i]]
    IN IF ~UniqueNames(ns) THEN Err(db, "23505") ELSE Ok([db EXCEPT !.nodes = ns])

MoveNodeToTrash(db, id, ownerID) ==
    LET hit == nodes_to_delete(db, id, ownerID)
        ns  == [i \in DOMAIN db.nodes |->
                   IF i \in hit
                   THEN [db.nodes[i] EXCEPT !.deleted = TRUE,
                                            !.original_parent_id = db.nodes[i].parent_id,
                                            !.parent_id = NoNode]
                   ELSE db.nodes[i]]
    IN IF ~UniqueNames(ns) THEN Err(db, "23505") ELSE Ok([db EXCEPT !.nodes = ns])

RestoreNodeWithChildren(db, id, ownerID) ==
    LET top == {i \in {id} \cap DOMAIN db.nodes :
                    db.nodes[i].owner_id = ownerID /\ db.nodes[i].deleted}
        hit == top \cup {i \in DOMAIN db.nodes :
                            /\ top # {} /\ db.nodes[i].deleted
                            /\ db.nodes[i].original_parent_id = id}
        ns  == [i \in DOMAIN db.nodes |->
                   IF i \in hit
                   THEN [db.nodes[i] EXCEPT !.deleted = FALSE,
                                            !.parent_id = db.nodes[i].original_parent_id,
                                            !.original_parent_id = NoNode]
                   ELSE db.nodes[i]]
    IN IF ~ParentsExist(ns) THEN [db |-> db, err |-> "23503", rows |-> 0]
       ELSE IF ~UniqueNames(ns) THEN [db |-> db, err |-> "ErrDuplicateNodeName", rows |-> 0]
       ELSE [db |-> [db EXCEPT !.nodes = ns], err |-> "none", rows |-> Cardinality(top)]

RestoreNodeKeepParent(db, id, ownerID) ==
    LET hit == {i \in {id} \cap DOMAIN db.nodes :
                    db.nodes[i].owner_id = ownerID /\ db.nodes[i].deleted}
        ns  == [i \in DOMAIN db.nodes |->
                   IF i \in hit
                   THEN [db.nodes[i] EXCEPT !.deleted = FALSE,
                                            !.original_parent_id = NoNode]
                   ELSE db.nodes[i]]
    IN IF ~ParentsExist(ns) THEN [db |-> db, err |-> "23503", rows |-> 0]
       ELSE IF ~UniqueNames(ns) THEN [db |-> db, err |-> "ErrDuplicateNodeName", rows |-> 0]
       ELSE [db |-> [db EXCEPT !.nodes = ns], err |-> "none", rows |-> Cardinality(hit)]

RestoreNode(db, id, ownerID) ==
    LET hit == {i \in {id} \cap DOMAIN db.nodes :
                    db.nodes[i].owner_id = ownerID /\ db.nodes[i].deleted}
        ns  == [i \in DOMAIN db.nodes |->
                   IF i \in hit
                   THEN [db.nodes[i] EXCEPT !.deleted = FALSE,
                                            !.parent_id = db.nodes[i].original_parent_id,
                                            !.original_parent_id = NoNode]
                   ELSE db.nodes[i]]
    IN IF ~ParentsExist(ns) THEN [db |-> db, err |-> "23503", rows |-> 0]
       ELSE IF ~UniqueNames(ns) THEN [db |-> db, err |-> "ErrDuplicateNodeName", rows |-> 0]
       ELSE [db |-> [db EXCEPT !.nodes = ns], err |-> "none", rows |-> Cardinality(hit)]

RenameNode(db, id, ownerID, newName) ==
    LET hit == {i \in {id} \cap DOMAIN db.nodes :
                    db.nodes[i].owner_id = ownerID /\ ~db.nodes[i].deleted}
        ns  == [i \in DOMAIN db.nodes |->
                   IF i \in hit THEN [db.nodes[i] EXCEPT !.name = newName]
                   ELSE db.nodes[i]]
    IN IF ~UniqueNames(ns) THEN [db |-> db, err |-> "ErrDuplicateNodeName", rows |-> 0]
       ELSE [db |-> [db EXCEPT !.nodes = ns], err |-> "none", rows |-> Cardinality(hit)]

MoveNode(db, id, ownerID, newParentID) ==
    LET hit == {i \in {id} \cap DOMAIN db.nodes :
                    db.nodes[i].owner_id = ownerID /\ ~db.nodes[i].deleted}
        ns  == [i \in DOMAIN db.nodes |->
                   IF i \in hit THEN [db.nodes[i] EXCEPT !.parent_id = newParentID]
                   ELSE db.nodes[i]]
    IN IF ~ParentsExist(ns)
       THEN [db |-> db, err |-> "target folder does not exist", rows |-> 0]
       ELSE IF ~UniqueNames(ns)
       THEN [db |-> db, err |-> "ErrDuplicateNodeName", rows |-> 0]
       ELSE [db |-> [db EXCEPT !.nodes = ns], err |-> "none", rows |-> Cardinality(hit)]

UpdateUserStorage(db, userID, bytesChange) ==
    Ok([db EXCEPT !.used[userID] = @ + bytesChange])

RECURSIVE Cascade(_, _)
\* ON DELETE CASCADE of nodes.parent_id: gone and every row hanging below it.
Cascade(ns, gone) ==
    LET more == {i \in DOMAIN ns : ns[i].parent_id \in gone} \ gone
    IN IF more = {} THEN gone ELSE Cascade(ns, gone \cup more)

RECURSIVE SumSizes(_, _)
SumSizes(ns, ids) ==
    IF ids = {} THEN 0
    ELSE LET i == CHOOSE x \in ids : TRUE
         IN ns[i].size_bytes + SumSizes(ns, ids \ {i})

\* DELETE FROM nodes ... RETURNING: the rows the statement names (the owner's
\* trashed rows) are returned; the rows the foreign keys cascade to (nodes
\* below them, their shares and favorites) go with them unreported.
PurgeTrash(db, ownerID) ==
    LET named == {i \in DOMAIN db.nodes :
                     db.nodes[i].owner_id = ownerID /\ db.nodes[i].deleted}
        gone  == Cascade(db.nodes, named)
        files == {i \in named : db.nodes[i].node_type = "file"}
    IN [db |-> [db EXCEPT
                  !.nodes = [i \in DOMAIN db.nodes \ gone |-> db.nodes[i]],
                  !.shares = {s \in db.shares : s.node_id \notin gone},
                  !.favorites = {f \in db.favorites : f[2] \notin gone}],
        err |-> "none",
        deletedFileIDs |-> files,
        totalSizeFreed |-> SumSizes(db.nodes, files)]

FreeShareIds(db) == {i \in ShareIds : \A s \in db.shares : s.id # i}
nextShareID(db) == CHOOSE i \in FreeShareIds(db) : \A j \in FreeShareIds(db) : i <= j

ShareNodeNoUnique(db, id, nodeID, sharerID, recipientID, permissions) ==
    Ok([db EXCEPT !.shares = @ \cup {[id |-> id, node_id |-> nodeID,
                                      sharer_id |-> sharerID,
                                      recipient_id |-> recipientID,
                                      permissions |-> permissions]}])

\* INSERT INTO shares: unique_share_per_recipient gives ErrShareAlreadyExists.
ShareNode(db, id, nodeID, sharerID, recipientID, permissions) ==
    LET share == [id |-> id, node_id |-> nodeID, sharer_id |-> sharerID,
                  recipient_id |-> recipientID, permissions |-> permissions]
    IN IF \E s \in db.shares : s.node_id = nodeID /\ s.recipient_id = recipientID
       THEN Err(db, "ErrShareAlreadyExists")
       ELSE Ok([db EXCEPT !.shares = @ \cup {share}])

GetShareByIDAnySharer(db, shareID, sharerID) ==
    {s \in db.shares : s.id = shareID}

GetShareByID(db, shareID, sharerID) ==
    {s \in db.shares : s.id = shareID /\ s.sharer_id = sharerID}

DeleteShareKeep(db, shareID, sharerID) == Ok(db)

DeleteShare(db, shareID, sharerID) ==
    Ok([db EXCEPT !.shares = {s \in @ : ~(s.id = shareID /\ s.sharer_id = sharerID)}])

AddFavorite(db, userID, nodeID) ==
    IF GetNodeIfAccessible(db, nodeID, userID) = NoNode THEN Err(db, "ErrNodeNotFound")
    ELSE IF <<userID, nodeID>> \in db.favorites THEN Err(db, "ErrFavoriteAlreadyExists")
    ELSE Ok([db EXCEPT !.favorites = @ \cup {<<userID, nodeID>>}])

RemoveFavorite(db, userID, nodeID) ==
    Ok([db EXCEPT !.favorites = @ \ {<<userID, nodeID>>}])

ListFavorites(db, userID) ==
    {i \in DOMAIN db.nodes : <<userID, i>> \in db.favorites /\ ~db.nodes[i].deleted}

\* The live nodes that sharerID has shared with recipientID themselves.
ListDirectlySharedNodes(db, recipientID, sharerID) ==
    {i \in DOMAIN db.nodes :
        /\ ~db.nodes[i].deleted
        /\ \E sh \in db.shares : /\ sh.node_id = i
                                 /\ sh.recipient_id = recipientID
                                 /\ sh.sharer_id = sharerID}

RECURSIVE FirstRows(_, _, _)
\* ORDER BY id ASC LIMIT n over the journal rows with the ids in ids.
FirstRows(jr, ids, n) ==
    IF n = 0 \/ ids = {} THEN <<>>
    ELSE LET k == CHOOSE i \in ids : \A j \in ids : i <= j
         IN <<[id |-> k, event_type |-> jr[k].event_type, payload |-> jr[k].payload]>>
            \o FirstRows(jr, ids \ {k}, n - 1)

GetEventsSinceInclusive(db, userID, sinceID) ==
    FirstRows(db.journal,
              {k \in 1..Len(db.journal) :
                  db.journal[k].user_id = userID /\ k >= sinceID},
              PageSize)

\* SELECT id, event_type, event_time, payload FROM event_journal WHERE
\* user_id = $1 AND id > $2 ORDER BY id ASC LIMIT 100.  The BIGSERIAL id of a
\* row is its position in the journal.
GetEventsSince(db, userID, sinceID) ==
    FirstRows(db.journal,
              {k \in 1..Len(db.journal) :
                  db.journal[k].user_id = userID /\ k > sinceID},
              PageSize)

\* The id of a row whose transaction has not committed, or was rolled back,
\* is taken from the sequence of the BIGSERIAL column and shows no row to
\* any reader.
NoRow == [user_id |-> NoNode, event_type |-> "", payload |-> [node_id |-> NoNode]]

\* LogEvent inside a transaction that is still open: INSERT INTO
\* event_journal takes the next id of the sequence; the row is not visible.
LogEventOpen(db) == [db EXCEPT !.journal = Append(@, NoRow)]

\* The commit of that transaction makes the row visible under the id it took.
LogEventCommit(db, id, userID, eventType, payload) ==
    [db EXCEPT !.journal[id] = [user_id |-> userID, event_type |-> eventType,
                                payload |-> payload]]

\* ExecTx: the transaction's writes reach the store only when fn returned no
\* error and the commit succeeded; otherwise the store is as it was at Begin.
ExecTxNoRollback(db, t, commitFails) ==
    IF t.err # "none" THEN Err(t.db, t.err)
    ELSE IF commitFails THEN Err(t.db, "internal")
    ELSE Ok(t.db)

ExecTx(db, t, commitFails) ==
    IF t.err # "none" THEN Err(db, t.err)
    ELSE IF commitFails THEN Err(db, "internal")
    ELSE Ok(t.db)

\* ------------------------------------------------------------------ handlers
\* A handler yields the store and the blob storage after the request, the
\* status it answered with and the hub publishes it made.

Reply(db, bl, status, pushes) ==
    [db |-> db, blobs |-> bl, status |-> status, pushes |-> pushes]

Push(userID, eventType, payload) ==
    [user_id |-> userID, event_type |-> eventType, payload |-> payload]

\* The users a node event goes to: the actor and, when the actor is not the
\* owner, the owner.
Recipients(actor, owner) ==
    IF owner # NoNode /\ actor # owner THEN <<actor, owner>> ELSE <<actor>>

PushAll(rcpt, eventType, payload) ==
    [k \in 1..Len(rcpt) |-> Push(rcpt[k], eventType, payload)]

\* The publishes a handler makes once its transaction is over: it returns
\* before any PublishEvent when ExecTx gave an error.
PublishAlways(txErr, pushes) == pushes

PublishAfterCommit(txErr, pushes) == IF txErr = "none" THEN pushes ELSE <<>>

LogBothActorOnly(t, actor, owner, eventType, payload, fault) ==
    IF t.err # "none" THEN t
    ELSE LogEvent(t.db, actor, eventType, payload, fault = "log1")

\* The two LogEvent calls of a node transaction: the actor's row, then the
\* owner's row when the actor is not the owner.
LogBoth(t, actor, owner, eventType, payload, fault) ==
    LET t1 == IF t.err # "none" THEN t
              ELSE LogEvent(t.db, actor, eventType, payload, fault = "log1")
    IN IF t1.err # "none" THEN t1
       ELSE IF owner # NoNode /\ actor # owner
       THEN LogEvent(t1.db, owner, eventType, payload, fault = "log2")
       ELSE t1

CreateFolderHandler(db, bl, actor, parentID, name, fault) ==
    IF ~CheckWritePermission(db, actor, parentID)
    THEN Reply(db, bl, "PermissionDenied", <<>>)
    ELSE IF parentID # NoNode /\ GetNodeIfAccessible(db, parentID, actor) = NoNode
    THEN Reply(db, bl, "NotFound", <<>>)
    ELSE
      LET ownerID == IF parentID # NoNode THEN db.nodes[parentID].owner_id ELSE actor
          parentFolderOwnerID ==
              IF parentID # NoNode THEN db.nodes[parentID].owner_id ELSE NoNode
          nodeID == generateUniqueID(db)
          row == NewRow(ownerID, parentID, name, "folder", 0)
          createdNode == NodeJSON(nodeID, row)
          t == LogBoth(CreateNode(db, nodeID, row), actor, parentFolderOwnerID,
                       "node_created", createdNode, fault)
          tx == ExecTx(db, t, fault = "commit")
          status == CASE tx.err = "none"  -> "Created"
                      [] tx.err = "23503" -> "InvalidOperation"
                      [] tx.err = "23505" -> "Conflict"
                      [] OTHER            -> "Internal"
      IN Reply(tx.db, bl, status,
               PublishAfterCommit(tx.err,
                   PushAll(Recipients(actor, parentFolderOwnerID),
                           "node_created", createdNode)))

\* One file of a multipart upload: its transaction (blob save, node row,
\* quota, journal) and, when that failed, the best-effort blob cleanup.
\* w is the store, the blob storage, the nodes created and the publishes so far.
UploadOne(w, actor, ownerID, parentID, parentFolderOwnerID, file) ==
    LET db == w.db
        nodeID == generateUniqueID(db)
        saved == file.fault # "save"
        blobsTx == IF saved THEN w.blobs \cup {nodeID} ELSE w.blobs
        row == NewRow(ownerID, parentID, file.name, "file", file.size)
        createdNode == NodeJSON(nodeID, row)
        t1 == IF ~saved THEN Err(db, "failed to save file to storage")
              ELSE CreateNode(db, nodeID, row)
        t2 == IF t1.err # "none" THEN t1
              ELSE UpdateUserStorage(t1.db, ownerID, file.size)
        t  == LogBoth(t2, actor, parentFolderOwnerID, "node_created",
                      createdNode, file.fault)
        tx == ExecTx(db, t, file.fault = "commit")
    IN IF tx.err # "none"
       THEN [w EXCEPT !.db = tx.db,
                      !.blobs = IF file.cleanup_fails THEN blobsTx
                                ELSE blobsTx \ {nodeID}]
       ELSE [db |-> tx.db, blobs |-> blobsTx,
             created |-> Append(w.created, nodeID),
             pushes |-> w.pushes \o
                 PublishAfterCommit(tx.err,
                     PushAll(Recipients(actor, parentFolderOwnerID),
                             "node_created", createdNode))]

RECURSIVE UploadAllStopAtFailure(_, _, _, _, _, _)
UploadAllStopAtFailure(w, actor, ownerID, parentID, parentFolderOwnerID, files) ==
    IF files = <<>> THEN w
    ELSE LET w1 == UploadOne(w, actor, ownerID, parentID, parentFolderOwnerID,
                             Head(files))
         IN IF Len(w1.created) = Len(w.created) THEN w1
            ELSE UploadAllStopAtFailure(w1, actor, ownerID, parentID,
                                        parentFolderOwnerID, Tail(files))

RECURSIVE UploadAll(_, _, _, _, _, _)
UploadAll(w, actor, ownerID, parentID, parentFolderOwnerID, files) ==
    IF files = <<>> THEN w
    ELSE UploadAll(UploadOne(w, actor, ownerID, parentID, parentFolderOwnerID,
                             Head(files)),
                   actor, ownerID, parentID, parentFolderOwnerID, Tail(files))

TotalSizeFirstOnly(files) == IF files = <<>> THEN 0 ELSE Head(files).size

RECURSIVE TotalSize(_)
\* totalUploadSize: the sizes of all file parts of the request.
TotalSize(files) ==
    IF files = <<>> THEN 0 ELSE Head(files).size + TotalSize(Tail(files))

UploadFileHandler(db, bl, actor, parentID, files, quota) ==
    IF ~CheckWritePermission(db, actor, parentID)
    THEN Reply(db, bl, "PermissionDenied", <<>>)
    ELSE IF parentID # NoNode /\ GetNodeIfAccessible(db, parentID, actor) = NoNode
    THEN Reply(db, bl, "NotFound", <<>>)
    ELSE IF files = <<>>
    THEN Reply(db, bl, "InvalidOperation", <<>>)
    ELSE
      LET ownerID == IF parentID # NoNode THEN db.nodes[parentID].owner_id ELSE actor
          parentFolderOwnerID ==
              IF parentID # NoNode THEN db.nodes[parentID].owner_id ELSE NoNode
      IN IF db.used[ownerID] + TotalSize(files) > quota
         THEN Reply(db, bl, "QuotaExceeded", <<>>)
         ELSE LET w == UploadAll([db |-> db, blobs |-> bl, created |-> <<>>,
                                  pushes |-> <<>>],
                                 actor, ownerID, parentID, parentFolderOwnerID, files)
              IN Reply(w.db, w.blobs,
                       IF w.created = <<>> THEN "Internal" ELSE "Created",
                       w.pushes)

DeleteNodeHandler(db, bl, actor, nodeID, fault) ==
    IF GetNodeIfAccessible(db, nodeID, actor) = NoNode
    THEN Reply(db, bl, "NotFound", <<>>)
    ELSE
      LET nodeToDelete == db.nodes[nodeID]
      IN IF ~CheckWritePermission(db, actor, nodeToDelete.parent_id)
         THEN Reply(db, bl, "PermissionDenied", <<>>)
         ELSE
           LET payload == [id |-> nodeID, parent_id |-> nodeToDelete.parent_id]
               success == nodes_to_delete(db, nodeID, nodeToDelete.owner_id) # {}
               t1 == MoveNodeToTrash(db, nodeID, nodeToDelete.owner_id)
               t2 == IF t1.err = "none" /\ ~success
                     THEN Err(t1.db, "ErrNodeNotFound") ELSE t1
               t  == LogBoth(t2, actor, nodeToDelete.owner_id, "node_trashed",
                             payload, fault)
               tx == ExecTx(db, t, fault = "commit")
               status == CASE tx.err = "none"            -> "NoContent"
                           [] tx.err = "ErrNodeNotFound" -> "NotFound"
                           [] OTHER                      -> "Internal"
           IN Reply(tx.db, bl, status,
                    PublishAfterCommit(tx.err,
                        PushAll(Recipients(actor, nodeToDelete.owner_id),
                                "node_trashed", payload)))

\* The rename half of UpdateNodeHandler; originalNode is the row read at the
\* start of the request.
RenamePart(db, bl, actor, nodeID, originalNode, newName, fault) ==
    IF ~CheckWritePermission(db, actor, originalNode.parent_id)
    THEN Reply(db, bl, "PermissionDenied", <<>>)
    ELSE
      LET payload == [id |-> nodeID, new_name |-> newName,
                      old_name |-> originalNode.name]
          t1 == RenameNode(db, nodeID, originalNode.owner_id, newName)
          t2 == IF t1.err = "none" /\ t1.rows = 0
                THEN Err(t1.db, "ErrNodeNotFound") ELSE t1
          t  == LogBoth(t2, actor, originalNode.owner_id, "node_renamed",
                        payload, fault)
          tx == ExecTx(db, t, fault = "commit")
          status == CASE tx.err = "none"                 -> "OK"
                      [] tx.err = "ErrDuplicateNodeName" -> "Conflict"
                      [] tx.err = "ErrNodeNotFound"      -> "NotFound"
                      [] OTHER                           -> "Internal"
      IN Reply(tx.db, bl, status,
               PublishAfterCommit(tx.err,
                   PushAll(Recipients(actor, originalNode.owner_id),
                           "node_renamed", payload)))

\* The checks the move half makes before its transaction: "pass" or the
\* status the request is refused with.
MoveChecks(db, actor, nodeID, originalNode, newParentID) ==
    LET destOwnerID == IF newParentID # NoNode
                       THEN db.nodes[newParentID].owner_id ELSE actor
    IN IF newParentID # NoNode /\ GetNodeIfAccessible(db, newParentID, actor) = NoNode
       THEN "NotFound"
       ELSE IF originalNode.owner_id # destOwnerID THEN "InvalidOperation"
       ELSE IF ~CheckWritePermission(db, actor, originalNode.parent_id)
       THEN "PermissionDenied"
       ELSE IF ~CheckWritePermission(db, actor, newParentID) THEN "PermissionDenied"
       ELSE IF originalNode.node_type = "folder"
               /\ IsDescendantOf(db, nodeID, newParentID).err # "none"
       THEN "Internal"
       ELSE IF originalNode.node_type = "folder"
               /\ IsDescendantOf(db, nodeID, newParentID).isDescendant
       THEN "InvalidOperation"
       ELSE "pass"

\* The move transaction and its publishes; ownerNotified is set when the
\* rename half of the same request already published to the owner.
MoveTx(db, bl, actor, nodeID, originalNode, newParentID, ownerNotified, fault) ==
    LET payload == [id |-> nodeID, new_parent_id |-> newParentID,
                    old_parent_id |-> originalNode.parent_id]
        t1 == MoveNode(db, nodeID, originalNode.owner_id, newParentID)
        t2 == IF t1.err = "none" /\ t1.rows = 0
              THEN Err(t1.db, "ErrNodeNotFound") ELSE t1
        t  == LogBoth(t2, actor, originalNode.owner_id, "node_moved", payload, fault)
        tx == ExecTx(db, t, fault = "commit")
        status == CASE tx.err = "none"                         -> "OK"
                    [] tx.err = "ErrDuplicateNodeName"         -> "Conflict"
                    [] tx.err = "target folder does not exist" -> "InvalidOperation"
                    [] OTHER                                   -> "Internal"
        rcpt == IF ~ownerNotified /\ actor # originalNode.owner_id
                THEN <<actor, originalNode.owner_id>> ELSE <<actor>>
    IN Reply(tx.db, bl, status,
             PublishAfterCommit(tx.err, PushAll(rcpt, "node_moved", payload)))

MovePart(db, bl, actor, nodeID, originalNode, newParentID, ownerNotified, fault) ==
    LET verdict == MoveChecks(db, actor, nodeID, originalNode, newParentID)
    IN IF verdict # "pass" THEN Reply(db, bl, verdict, <<>>)
       ELSE MoveTx(db, bl, actor, nodeID, originalNode, newParentID,
                   ownerNotified, fault)

\* req.name = "" stands for a request without "name", req.move = FALSE for
\* one without "parent_id"; req.parent = NoNode is the destination "root".
UpdateNodeHandler(db, bl, actor, nodeID, req) ==
    IF GetNodeIfAccessible(db, nodeID, actor) = NoNode
    THEN Reply(db, bl, "NotFound", <<>>)
    ELSE
      LET originalNode == db.nodes[nodeID]
          r1 == IF req.name # ""
                THEN RenamePart(db, bl, actor, nodeID, originalNode, req.name,
                                req.fault_rename)
                ELSE Reply(db, bl, "OK", <<>>)
          ownerNotified == req.name # "" /\ actor # originalNode.owner_id
      IN IF r1.status # "OK" THEN r1
         ELSE IF ~req.move
         THEN IF req.name = "" THEN Reply(db, bl, "InvalidOperation", <<>>) ELSE r1
         ELSE LET r2 == MovePart(r1.db, bl, actor, nodeID, originalNode, req.parent,
                                 ownerNotified, req.fault_move)
              IN Reply(r2.db, bl, r2.status, r1.pushes \o r2.pushes)

RestoreNodeHandler(db, bl, actor, nodeID, fault) ==
    LET t1 == RestoreNode(db, nodeID, actor)
        t2 == IF t1.err = "none" /\ t1.rows = 0
              THEN Err(t1.db, "ErrNodeNotFound") ELSE Err(t1.db, t1.err)
        t3 == IF t2.err = "none" /\ GetNodeByID(t2.db, nodeID, actor) = NoNode
              THEN Err(t2.db, "failed to retrieve restored node") ELSE t2
        restoredNode == IF nodeID \in DOMAIN t3.db.nodes
                        THEN NodeJSON(nodeID, t3.db.nodes[nodeID]) ELSE NoNode
        t  == IF t3.err # "none" THEN t3
              ELSE LogEvent(t3.db, actor, "node_restored", restoredNode,
                            fault = "log1")
        tx == ExecTx(db, t, fault = "commit")
        status == CASE tx.err = "none"                 -> "OK"
                    [] tx.err = "ErrNodeNotFound"      -> "NotFound"
                    [] tx.err = "ErrDuplicateNodeName" -> "Conflict"
                    [] OTHER                           -> "Internal"
    IN Reply(tx.db, bl, status,
             PublishAfterCommit(tx.err, <<Push(actor, "node_restored", restoredNode)>>))

PurgeTrashHandler(db, bl, actor, fault) ==
    LET t1 == PurgeTrash(db, actor)
        t  == IF t1.totalSizeFreed > 0
              THEN UpdateUserStorage(t1.db, actor, 0 - t1.totalSizeFreed)
              ELSE Ok(t1.db)
        tx == ExecTx(db, t, fault = "commit")
    IN IF tx.err # "none" THEN Reply(tx.db, bl, "Internal", <<>>)
       ELSE Reply(tx.db, bl \ t1.deletedFileIDs, "NoContent", <<>>)

ShareNodeHandler(db, bl, actor, nodeID, recipientID, permissions, fault) ==
    IF GetNodeByID(db, nodeID, actor) = NoNode
    THEN Reply(db, bl, "NotFound", <<>>)
    ELSE IF recipientID = actor
    THEN Reply(db, bl, "InvalidOperation", <<>>)
    ELSE
      LET shareID == nextShareID(db)
          payload == [share_info |-> [id |-> shareID, node_id |-> nodeID,
                                      sharer_id |-> actor,
                                      recipient_id |-> recipientID,
                                      permissions |-> permissions],
                      node_info |-> NodeJSON(nodeID, db.nodes[nodeID])]
          t1 == ShareNode(db, shareID, nodeID, actor, recipientID, permissions)
          t  == IF t1.err # "none" THEN t1
                ELSE LogEvent(t1.db, recipientID, "node_shared_with_you", payload,
                              fault = "log1")
          tx == ExecTx(db, t, fault = "commit")
          status == CASE tx.err = "none"                  -> "Created"
                      [] tx.err = "ErrShareAlreadyExists" -> "Conflict"
                      [] tx.err = "ErrRecipientNotFound"  -> "NotFound"
                      [] OTHER                            -> "Internal"
      IN Reply(tx.db, bl, status,
               PublishAfterCommit(tx.err,
                   <<Push(recipientID, "node_shared_with_you", payload)>>))

DeleteShareHandler(db, bl, actor, shareID, fault) ==
    IF GetShareByID(db, shareID, actor) = {}
    THEN Reply(db, bl, "NotFound", <<>>)
    ELSE
      LET shareInfo == CHOOSE s \in GetShareByID(db, shareID, actor) : TRUE
          payload == [node_id |-> shareInfo.node_id]
          t1 == DeleteShare(db, shareID, actor)
          t  == LogEvent(t1.db, shareInfo.recipient_id, "share_revoked_for_you",
                         payload, fault = "log1")
          tx == ExecTx(db, t, fault = "commit")
      IN Reply(tx.db, bl, IF tx.err = "none" THEN "NoContent" ELSE "Internal",
               PublishAfterCommit(tx.err,
                   <<Push(shareInfo.recipient_id, "share_revoked_for_you", payload)>>))

AddFavoriteHandler(db, bl, actor, nodeID, fault) ==
    LET payload == [node_id |-> nodeID]
        t1 == AddFavorite(db, actor, nodeID)
        t  == IF t1.err # "none" THEN t1
              ELSE LogEvent(t1.db, actor, "favorite_added", payload, fault = "log1")
        tx == ExecTx(db, t, fault = "commit")
        status == CASE tx.err = "none"                     -> "NoContent"
                    [] tx.err = "ErrNodeNotFound"          -> "NotFound"
                    [] tx.err = "ErrFavoriteAlreadyExists" -> "Conflict"
                    [] OTHER                               -> "Internal"
    IN Reply(tx.db, bl, status,
             PublishAfterCommit(tx.err, <<Push(actor, "favorite_added", payload)>>))

RemoveFavoriteHandler(db, bl, actor, nodeID, fault) ==
    LET payload == [node_id |-> nodeID]
        t1 == RemoveFavorite(db, actor, nodeID)
        t  == LogEvent(t1.db, actor, "favorite_removed", payload, fault = "log1")
        tx == ExecTx(db, t, fault = "commit")
    IN Reply(tx.db, bl, IF tx.err = "none" THEN "NoContent" ELSE "Internal",
             PublishAfterCommit(tx.err, <<Push(actor, "favorite_removed", payload)>>))

\* ----------------------------------------------------------------------- hub
\* The registry is a function from the users that have an entry to their sets
\* of connections; registerClient, unregisterClient and PublishEvent each run
\* under the hub's lock from their first statement to their last.

\* NewHub: an empty map.
NewHub == <<>>

\* A connection id no Client has been made for.
NoClient == [user_id |-> NoNode, send |-> <<>>, closed |-> FALSE,
             pc |-> "none", write |-> "off"]

\* NewClient: an open, empty send channel.  ServeWsHandler made it and is at
\* its next statement, the send on hub.Register.
NewClient(userID) == [user_id |-> userID, send |-> <<>>, closed |-> FALSE,
                      pc |-> "registering", write |-> "off"]

\* Hub.Run between two receives.
Select == [op |-> "select", client |-> 0]

\* registerClient: the user's set is made when it is missing, the client added.
registerClient(h, c, userID) ==
    [u \in DOMAIN h \cup {userID} |->
        IF u = userID
        THEN (IF u \in DOMAIN h THEN h[u] ELSE {}) \cup {c}
        ELSE h[u]]

unregisterClientCloseOnly(h, cn, c) ==
    LET userID == cn[c].user_id
    IN IF userID \in DOMAIN h /\ c \in h[userID]
       THEN [clients |-> h, conn |-> [cn EXCEPT ![c].closed = TRUE]]
       ELSE [clients |-> h, conn |-> cn]

unregisterClientKeepEntry(h, cn, c) ==
    LET userID == cn[c].user_id
    IN IF userID \in DOMAIN h /\ c \in h[userID]
       THEN [clients |-> [h EXCEPT ![userID] = @ \ {c}],
             conn |-> [cn EXCEPT ![c].closed = TRUE]]
       ELSE [clients |-> h, conn |-> cn]

unregisterClientNoClose(h, cn, c) ==
    LET userID == cn[c].user_id
    IN IF userID \in DOMAIN h /\ c \in h[userID]
       THEN [clients |-> IF h[userID] = {c}
                         THEN [u \in DOMAIN h \ {userID} |-> h[u]]
                         ELSE [h EXCEPT ![userID] = @ \ {c}],
             conn |-> cn]
       ELSE [clients |-> h, conn |-> cn]

\* unregisterClient: a client found in its user's set is deleted from it and
\* its send channel closed, and the user's entry is deleted with its last
\* client; a client that is not found is left alone.
unregisterClient(h, cn, c) ==
    LET userID == cn[c].user_id
    IN IF userID \in DOMAIN h /\ c \in h[userID]
       THEN [clients |-> IF h[userID] = {c}
                         THEN [u \in DOMAIN h \ {userID} |-> h[u]]
                         ELSE [h EXCEPT ![userID] = @ \ {c}],
             conn |-> [cn EXCEPT ![c].closed = TRUE]]
       ELSE [clients |-> h, conn |-> cn]

\* select { case client.send <- eventData: default: }: the message is queued
\* when the channel has room and dropped when it has none.
TrySend(q, eventData) == IF Len(q) < SendCap THEN Append(q, eventData) ELSE q

PublishEventAllOrNone(h, cn, userID, eventData) ==
    IF userID \in DOMAIN h /\ \A c \in h[userID] : Len(cn[c].send) < SendCap
    THEN [c \in DOMAIN cn |->
            IF c \in h[userID]
            THEN [cn[c] EXCEPT !.send = TrySend(@, eventData)]
            ELSE cn[c]]
    ELSE cn

PublishEventFirstClient(h, cn, userID, eventData) ==
    IF userID \in DOMAIN h
    THEN LET first == CHOOSE c \in h[userID] : \A d \in h[userID] : c <= d
         IN [cn EXCEPT ![first].send = TrySend(@, eventData)]
    ELSE cn

PublishEventEveryClient(h, cn, userID, eventData) ==
    [c \in DOMAIN cn |->
        IF cn[c].user_id = userID /\ cn[c].pc \notin {"none", "registering"}
        THEN [cn[c] EXCEPT !.send = TrySend(@, eventData)]
        ELSE cn[c]]

\* PublishEvent: a non-blocking send to every client of the user's set.
PublishEvent(h, cn, userID, eventData) ==
    IF userID \in DOMAIN h
    THEN [c \in DOMAIN cn |->
            IF c \in h[userID]
            THEN [cn[c] EXCEPT !.send = TrySend(@, eventData)]
            ELSE cn[c]]
    ELSE cn

\* The bytes a handler publishes for an event: its type and its payload.
EventMsg(push) == [event_type |-> push.event_type, payload |-> push.payload]

RECURSIVE PublishAll(_, _, _, _)
\* The PublishEvent calls of a handler, from the k-th on, in their order.
PublishAll(h, cn, pushes, k) ==
    IF k > Len(pushes) THEN cn
    ELSE PublishAll(h, PublishEvent(h, cn, pushes[k].user_id, EventMsg(pushes[k])),
                    pushes, k + 1)

\* A token as the handshake carries it: none, or claims for a user under a
\* signature that verifies or does not, expired or not.
NoToken == [user_id |-> NoNode, signed |-> FALSE, expired |-> FALSE]
Tokens ==
    {NoToken} \cup [user_id : Users, signed : {TRUE}, expired : {FALSE}]
              \cup {[user_id |-> 1, signed |-> FALSE, expired |-> FALSE],
                    [user_id |-> 1, signed |-> TRUE, expired |-> TRUE]}

VerifyJWTNoExpiry(token) ==
    IF token.signed THEN token.user_id ELSE NoNode

\* VerifyJWT: the user id of the claims, or NoNode for the error.
VerifyJWT(token) ==
    IF token.signed /\ ~token.expired THEN token.user_id ELSE NoNode

\* GET /events?since=: the rows, in the response body.  It writes nothing.
GetEventsHandler(db, actor, sinceID) == GetEventsSince(db, actor, sinceID)

\* ------------------------------------------------------------------ sessions

\* GetUserByRefreshToken finds no row; the request body carries no token.
NoUser == 0
EmptyToken == 0

\* nanoid.Standard(40): a value no earlier call has returned.
generateID(gen) == gen + 1

\* INSERT INTO sessions; refresh_token is UNIQUE.
CreateSession(ss, userID, refreshToken) ==
    IF \E s \in ss : s.refresh_token = refreshToken
    THEN [sessions |-> ss, err |-> "23505"]
    ELSE [sessions |-> ss \cup {[user_id |-> userID,
                                 refresh_token |-> refreshToken,
                                 expired |-> FALSE]},
          err |-> "none"]

\* SELECT ... JOIN sessions s ... WHERE s.refresh_token = $1 AND
\* s.expires_at > NOW(): the user of the row, or nil.
GetUserByRefreshToken(ss, refreshToken) ==
    IF \E s \in ss : s.refresh_token = refreshToken /\ ~s.expired
    THEN (CHOOSE s \in ss : s.refresh_token = refreshToken /\ ~s.expired).user_id
    ELSE NoUser

\* DELETE FROM sessions WHERE refresh_token = $1; the number of rows deleted
\* is not looked at and no row deleted is no error.
DeleteSessionByRefreshToken(ss, refreshToken) ==
    {s \in ss : s.refresh_token # refreshToken}

\* POST /auth/login, for a user of the table users.
LoginHandler(ss, gen, userID, passwordOK) ==
    IF ~passwordOK
    THEN [sessions |-> ss, generated |-> gen, status |-> "Unauthorized",
          refresh_token |-> EmptyToken]
    ELSE LET refreshToken == generateID(gen)
             c == CreateSession(ss, userID, refreshToken)
         IN IF c.err # "none"
            THEN [sessions |-> ss, generated |-> refreshToken,
                  status |-> "Internal", refresh_token |-> EmptyToken]
            ELSE [sessions |-> c.sessions, generated |-> refreshToken,
                  status |-> "OK", refresh_token |-> refreshToken]

\* POST /auth/refresh up to the SELECT of its transaction: the status the
\* request is refused with, or "pass".
RefreshChecks(ss, refreshToken) ==
    IF refreshToken = EmptyToken THEN "BadRequest"
    ELSE IF GetUserByRefreshToken(ss, refreshToken) = NoUser THEN "Unauthorized"
    ELSE "pass"

\* The rest of that transaction and its commit, for the user the SELECT has
\* found: DELETE, GenerateJWT, generateID, INSERT.
RefreshTx(ss, gen, userID, refreshToken) ==
    LET newRefreshToken == generateID(gen)
        c == CreateSession(DeleteSessionByRefreshToken(ss, refreshToken),
                           userID, newRefreshToken)
    IN IF c.err # "none"
       THEN [sessions |-> ss, generated |-> newRefreshToken,
             status |-> "Internal", refresh_token |-> EmptyToken]
       ELSE [sessions |-> c.sessions, generated |-> newRefreshToken,
             status |-> "OK", refresh_token |-> newRefreshToken]

\* ------------------------------------------------------------------- actions
\* One action per route.  It serves one request against the current store;
\* U is the set of principals that may send it, F the set of store failures
\* that may hit its transaction and N the set of names it may carry.

NoRequest == [op |-> "none", actor |-> NoNode, status |-> ""]

Store(req, r) ==
    /\ nodes' = r.db.nodes
    /\ shares' = r.db.shares
    /\ favorites' = r.db.favorites
    /\ journal' = r.db.journal
    /\ used' = r.db.used
    /\ blobs' = r.blobs
    /\ pushed' = r.pushes
    /\ resp' = [req EXCEPT !.status = r.status]

\* A request served from its first statement to its response in one step.
Answer(req, r) ==
    /\ Store(req, r)
    /\ conn' = PublishAll(clients, conn, r.pushes, 1)
    /\ UNCHANGED <<moves, clients, running>>
    /\ UNCHANGED authVars
    /\ UNCHANGED uploads
    /\ UNCHANGED syncVars

\* The server takes the next request once the last response has been written.
Idle == resp.op = "none"

\* The handler returns: the response and the publishes are out.
Deliver ==
    /\ ~Idle
    /\ resp' = NoRequest
    /\ pushed' = <<>>
    /\ UNCHANGED <<nodes, shares, favorites, journal, used, blobs, moves>>
    /\ UNCHANGED hubVars
    /\ UNCHANGED authVars
    /\ UNCHANGED uploads
    /\ UNCHANGED syncVars

\* POST /nodes/folder
CreateFolder(U, N, F) ==
    /\ Idle
    /\ FreeIds(DB) # {}
    /\ \E actor \in U, parentID \in NodeIds \cup {NoNode}, name \in N,
          fault \in F :
          Answer([op |-> "create_folder", actor |-> actor,
                  node |-> generateUniqueID(DB), name |-> name,
                  parent |-> parentID, status |-> ""],
                 CreateFolderHandler(DB, blobs, actor, parentID, name, fault))

\* UploadFileHandler up to its quota check: the status the request is refused
\* with, or "pass".
UploadChecks(db, actor, parentID, files, quota) ==
    IF ~CheckWritePermission(db, actor, parentID) THEN "PermissionDenied"
    ELSE IF parentID # NoNode /\ GetNodeIfAccessible(db, parentID, actor) = NoNode
    THEN "NotFound"
    ELSE IF files = <<>> THEN "InvalidOperation"
    ELSE IF db.used[IF parentID # NoNode THEN db.nodes[parentID].owner_id
                    ELSE actor] + TotalSize(files) > quota
    THEN "QuotaExceeded"
    ELSE "pass"

\* The rest of UploadFileHandler: one transaction per file part for the
\* owner the handler has read before its quota check, then the response.
UploadTxs(db, bl, actor, ownerID, parentID, parentFolderOwnerID, files) ==
    LET w == UploadAll([db |-> db, blobs |-> bl, created |-> <<>>,
                        pushes |-> <<>>],
                       actor, ownerID, parentID, parentFolderOwnerID, files)
    IN Reply(w.db, w.blobs,
             IF w.created = <<>> THEN "Internal" ELSE "Created",
             w.pushes)

\* POST /nodes/file with one file part; the blob cleanup may fail after a
\* failed commit.
UploadFile(U, F) ==
    /\ Idle
    /\ FreeIds(DB) # {}
    /\ \E actor \in U, parentID \in NodeIds \cup {NoNode}, name \in Names,
          size \in FileSizes, fault \in F \cup (UploadFaults \ Faults),
          cleanupFails \in BOOLEAN :
          /\ cleanupFails => fault = "commit"
          /\ Answer([op |-> "upload", actor |-> actor,
                     node |-> generateUniqueID(DB), name |-> name,
                     parent |-> parentID, size |-> size, status |-> ""],
                    UploadFileHandler(DB, blobs, actor, parentID,
                        <<[name |-> name, size |-> size, fault |-> fault,
                           cleanup_fails |-> cleanupFails]>>,
                        QuotaBytes))

\* POST /nodes/file with two file parts.  The first is named "a"; a part is
\* one byte long or as long as the whole quota; the blob cleanup of a part
\* may fail after its commit failed.
UploadFiles(U, F) ==
    /\ Idle
    /\ Cardinality(FreeIds(DB)) >= 2
    /\ \E actor \in U, parentID \in NodeIds \cup {NoNode}, name \in Names,
          sizes \in (FileSizes \cup {QuotaBytes}) \X (FileSizes \cup {QuotaBytes}),
          faults \in (F \cup (UploadFaults \ Faults)) \X (F \cup (UploadFaults \ Faults)),
          cleanupFails \in BOOLEAN \X BOOLEAN :
          LET files == [k \in 1..2 |->
                          [name |-> IF k = 1 THEN "a" ELSE name,
                           size |-> sizes[k], fault |-> faults[k],
                           cleanup_fails |-> cleanupFails[k]]]
          IN /\ \A k \in 1..2 : cleanupFails[k] => faults[k] = "commit"
             /\ Answer([op |-> "upload_batch", actor |-> actor,
                        parent |-> parentID, files |-> files, status |-> ""],
                       UploadFileHandler(DB, blobs, actor, parentID, files,
                                         QuotaBytes))

\* DELETE /nodes/{nodeId}
DeleteNode(U, F) ==
    /\ Idle
    /\ \E actor \in U, nodeID \in NodeIds, fault \in F :
          Answer([op |-> "trash", actor |-> actor, node |-> nodeID, status |-> ""],
                 DeleteNodeHandler(DB, blobs, actor, nodeID, fault))

\* PATCH /nodes/{nodeId}.  Store failures are injected in the requests that
\* run one transaction (rename only, move only).
UpdateNode(U, F) ==
    /\ Idle
    /\ \E actor \in U, nodeID \in NodeIds, name \in Names \cup {""},
          move \in BOOLEAN, parentID \in NodeIds \cup {NoNode},
          faultRename \in F, faultMove \in F :
          /\ ~move => parentID = NoNode /\ faultMove = "none"
          /\ (name = "" \/ move) => faultRename = "none"
          /\ name # "" => faultMove = "none"
          /\ Answer([op |-> "update", actor |-> actor, node |-> nodeID,
                     name |-> name, move |-> move, parent |-> parentID,
                     status |-> ""],
                    UpdateNodeHandler(DB, blobs, actor, nodeID,
                        [name |-> name, move |-> move, parent |-> parentID,
                         fault_rename |-> faultRename, fault_move |-> faultMove]))

\* POST /nodes/{nodeId}/restore
RestoreNodeReq(U, F) ==
    /\ Idle
    /\ \E actor \in U, nodeID \in NodeIds, fault \in F \ {"log2"} :
          Answer([op |-> "restore", actor |-> actor, node |-> nodeID, status |-> ""],
                 RestoreNodeHandler(DB, blobs, actor, nodeID, fault))

\* DELETE /trash/purge
PurgeTrashReq(U, F) ==
    /\ Idle
    /\ \E actor \in U, fault \in F \ {"log1", "log2"} :
          Answer([op |-> "purge", actor |-> actor, status |-> ""],
                 PurgeTrashHandler(DB, blobs, actor, fault))

\* POST /nodes/{nodeId}/share
ShareNodeReq(U, F) ==
    /\ Idle
    /\ FreeShareIds(DB) # {}
    /\ \E actor \in U, nodeID \in NodeIds, recipientID \in Users,
          permissions \in Permissions, fault \in F \ {"log2"} :
          Answer([op |-> "share", actor |-> actor, node |-> nodeID,
                  to |-> recipientID, permissions |-> permissions,
                  share |-> nextShareID(DB), status |-> ""],
                 ShareNodeHandler(DB, blobs, actor, nodeID, recipientID,
                                  permissions, fault))

\* DELETE /shares/{shareId}
DeleteShareReq(U, F) ==
    /\ Idle
    /\ \E actor \in U, shareID \in ShareIds, fault \in F \ {"log2"} :
          Answer([op |-> "unshare", actor |-> actor, share |-> shareID,
                  status |-> ""],
                 DeleteShareHandler(DB, blobs, actor, shareID, fault))

\* POST /nodes/{nodeId}/favorite
AddFavoriteReq(U, F) ==
    /\ Idle
    /\ \E actor \in U, nodeID \in NodeIds, fault \in F \ {"log2"} :
          Answer([op |-> "favorite", actor |-> actor, node |-> nodeID,
                  status |-> ""],
                 AddFavoriteHandler(DB, blobs, actor, nodeID, fault))

\* DELETE /nodes/{nodeId}/favorite
RemoveFavoriteReq(U, F) ==
    /\ Idle
    /\ \E actor \in U, nodeID \in NodeIds, fault \in F \ {"log2"} :
          Answer([op |-> "unfavorite", actor |-> actor, node |-> nodeID,
                  status |-> ""],
                 RemoveFavoriteHandler(DB, blobs, actor, nodeID, fault))

\* UpdateNodeHandler's call of IsDescendantOf, for any node and any
\* destination ("" for the root), and what it returns.
AskIsDescendantOf ==
    /\ Idle
    /\ \E nodeID \in NodeIds, potentialParentID \in NodeIds \cup {NoNode} :
          Answer([op |-> "descendant", actor |-> NoNode, node |-> nodeID,
                  parent |-> potentialParentID,
                  answer |-> IsDescendantOf(DB, nodeID, potentialParentID),
                  status |-> ""],
                 Reply(DB, blobs, "OK", <<>>))

\* GET /events?since=, with since from below the first id to above the last.
GetEvents(U) ==
    /\ Idle
    /\ \E actor \in U, sinceID \in -1 .. Len(journal) + 1 :
          Answer([op |-> "events", actor |-> actor, since |-> sinceID,
                  events |-> GetEventsHandler(DB, actor, sinceID), status |-> ""],
                 Reply(DB, blobs, "OK", <<>>))

\* A handler whose transaction committed publishes an event of type e to one
\* user.
Publish(U, E) ==
    /\ Idle
    /\ \E userID \in U, e \in E :
          Answer([op |-> "publish", actor |-> userID, status |-> ""],
                 Reply(DB, blobs, "OK", <<Push(userID, e, NoNode)>>))

\* GET /ws?token=: without a token that verifies, and when the upgrade fails,
\* the handler returns; otherwise it makes the Client of the connection and
\* goes on to send it on hub.Register.
ServeWs(T) ==
    /\ Idle
    /\ \E token \in T, upgrades \in BOOLEAN :
          LET userID == VerifyJWT(token)
              free == {c \in ConnIds : conn[c].pc = "none"}
              new == CHOOSE c \in free : \A d \in free : c <= d
              req == [op |-> "ws", actor |-> userID, token |-> token,
                      client |-> 0, status |-> ""]
          IN IF token = NoToken
             THEN resp' = [req EXCEPT !.status = "NoToken"] /\ UNCHANGED conn
             ELSE IF userID = NoNode
             THEN resp' = [req EXCEPT !.status = "InvalidToken"] /\ UNCHANGED conn
             ELSE IF ~upgrades
             THEN resp' = [req EXCEPT !.status = "UpgradeError"] /\ UNCHANGED conn
             ELSE /\ free # {}
                  /\ resp' = [req EXCEPT !.client = new,
                                         !.status = "SwitchingProtocols"]
                  /\ conn' = [conn EXCEPT ![new] = NewClient(userID)]
    /\ pushed' = <<>>
    /\ UNCHANGED <<nodes, shares, favorites, journal, used, blobs, moves>>
    /\ UNCHANGED <<clients, running>>
    /\ UNCHANGED authVars
    /\ UNCHANGED uploads
    /\ UNCHANGED syncVars

\* The steps below leave the store and the request in service alone.
HubStep == UNCHANGED <<nodes, shares, favorites, journal, used, blobs, pushed,
                       resp, moves, sessions, refreshing, generated, uploads,
                       writing, received>>

\* Hub.Run, case client := <-h.Register: the handler's send goes through and
\* the handler starts the two pumps of the connection.
RunReceiveRegister ==
    /\ running = Select
    /\ \E c \in ConnIds :
          /\ conn[c].pc = "registering"
          /\ running' = [op |-> "register", client |-> c]
          /\ conn' = [conn EXCEPT ![c].pc = "reading", ![c].write = "on"]
    /\ UNCHANGED clients
    /\ HubStep

\* Hub.Run, case client := <-h.Unregister: the send of ReadPump goes through
\* and ReadPump closes the connection and ends.
RunReceiveUnregister ==
    /\ running = Select
    /\ \E c \in ConnIds :
          /\ conn[c].pc = "unregistering"
          /\ running' = [op |-> "unregister", client |-> c]
          /\ conn' = [conn EXCEPT ![c].pc = "closed"]
    /\ UNCHANGED clients
    /\ HubStep

\* Hub.Run calls registerClient for the client it received.
RunRegisterClient ==
    /\ running.op = "register"
    /\ clients' = registerClient(clients, running.client,
                                 conn[running.client].user_id)
    /\ running' = Select
    /\ UNCHANGED conn
    /\ HubStep

\* Hub.Run calls unregisterClient for the client it received.
RunUnregisterClient ==
    /\ running.op = "unregister"
    /\ LET r == unregisterClient(clients, conn, running.client)
       IN clients' = r.clients /\ conn' = r.conn
    /\ running' = Select
    /\ HubStep

\* ReadPump: ReadMessage returns an error (the peer closed, or the connection
\* was closed under it) and the deferred function is at its send on
\* hub.Unregister.
ReadPumpFails ==
    /\ \E c \in ConnIds :
          /\ conn[c].pc = "reading"
          /\ conn' = [conn EXCEPT ![c].pc = "unregistering"]
    /\ UNCHANGED <<clients, running>>
    /\ HubStep

\* WritePump takes the next message off the send channel and writes it; when
\* the write fails it closes the connection and ends.
WritePumpWrites ==
    /\ \E c \in ConnIds, written \in BOOLEAN :
          /\ conn[c].write = "on"
          /\ conn[c].send # <<>>
          /\ conn' = [conn EXCEPT ![c].send = Tail(@),
                                  ![c].write = IF written THEN "on" ELSE "done"]
    /\ UNCHANGED <<clients, running>>
    /\ HubStep

\* WritePump finds the send channel closed and empty, writes the close message
\* and ends.
WritePumpEnds ==
    /\ \E c \in ConnIds :
          /\ conn[c].write = "on"
          /\ conn[c].send = <<>>
          /\ conn[c].closed
          /\ conn' = [conn EXCEPT ![c].write = "done"]
    /\ UNCHANGED <<clients, running>>
    /\ HubStep

\* Some other holder of the hub sends a client on hub.Unregister, whatever
\* the client's state.  No code of the repository does; it is the duplicate
\* call that unregisterClient guards against.
UnregisterAgain ==
    /\ running = Select
    /\ \E c \in ConnIds :
          /\ conn[c].pc # "none"
          /\ running' = [op |-> "unregister", client |-> c]
    /\ UNCHANGED <<clients, conn>>
    /\ HubStep

\* PATCH /nodes/{nodeId} with "parent_id" only, up to the last check before
\* its transaction: the handler has read the node, resolved the destination
\* and found no circular move.  Other requests run before it goes on.
MoveBegin(U) ==
    /\ Cardinality(moves) < MaxInFlight
    /\ \E actor \in U, nodeID \in NodeIds, parentID \in NodeIds \cup {NoNode} :
          /\ GetNodeIfAccessible(DB, nodeID, actor) # NoNode
          /\ MoveChecks(DB, actor, nodeID, nodes[nodeID], parentID) = "pass"
          /\ moves' = moves \cup {[actor |-> actor, node |-> nodeID,
                                   originalNode |-> nodes[nodeID],
                                   parent |-> parentID]}
    /\ UNCHANGED <<nodes, shares, favorites, journal, used, blobs, pushed, resp>>
    /\ UNCHANGED hubVars
    /\ UNCHANGED authVars
    /\ UNCHANGED uploads
    /\ UNCHANGED syncVars

\* The rest of that request: the move transaction, the response, the publishes.
MoveCommit ==
    /\ Idle
    /\ \E m \in moves :
          /\ Store([op |-> "update", actor |-> m.actor, node |-> m.node,
                    name |-> "", move |-> TRUE, parent |-> m.parent,
                    status |-> ""],
                   MoveTx(DB, blobs, m.actor, m.node, m.originalNode, m.parent,
                          FALSE, "none"))
          /\ moves' = moves \ {m}
          /\ conn' = PublishAll(clients, conn,
                                MoveTx(DB, blobs, m.actor, m.node, m.originalNode,
                                       m.parent, FALSE, "none").pushes, 1)
    /\ UNCHANGED <<clients, running>>
    /\ UNCHANGED authVars
    /\ UNCHANGED uploads
    /\ UNCHANGED syncVars

\* The steps of the sessions leave the store and the hub alone.
AuthStep ==
    /\ UNCHANGED <<nodes, shares, favorites, journal, used, blobs, pushed, moves>>
    /\ UNCHANGED hubVars
    /\ UNCHANGED uploads
    /\ UNCHANGED syncVars

\* POST /auth/refresh from its first statement to the SELECT of its
\* transaction.  A request the SELECT finds no user for is answered; one it
\* finds a user for goes on to its DELETE, and under READ COMMITTED other
\* transactions on the same row may commit before that DELETE runs.
RefreshBegin(T) ==
    /\ Idle
    /\ \E refreshToken \in T :
          LET req == [op |-> "refresh", actor |-> NoUser, token |-> refreshToken,
                      new_token |-> EmptyToken, status |-> ""]
              c == RefreshChecks(sessions, refreshToken)
          IN IF c # "pass"
             THEN /\ resp' = [req EXCEPT !.status = c]
                  /\ UNCHANGED refreshing
             ELSE /\ Len(refreshing) < MaxInFlight
                  /\ generated + Len(refreshing) < MaxTokens
                  /\ refreshing' = Append(refreshing,
                        [user |-> GetUserByRefreshToken(sessions, refreshToken),
                         token |-> refreshToken])
                  /\ UNCHANGED resp
    /\ UNCHANGED <<sessions, generated>>
    /\ AuthStep

\* The rest of that request.  The DELETE waits for a transaction that has
\* deleted the row to end and then deletes what is left of it, so the
\* statements from the DELETE to the commit are one step on the committed
\* table.
RefreshCommit ==
    /\ Idle
    /\ \E i \in 1..Len(refreshing) :
          LET r == refreshing[i]
              t == RefreshTx(sessions, generated, r.user, r.token)
          IN /\ sessions' = t.sessions
             /\ generated' = t.generated
             /\ resp' = [op |-> "refresh", actor |-> r.user, token |-> r.token,
                         new_token |-> t.refresh_token, status |-> t.status]
             /\ refreshing' = [j \in 1..(Len(refreshing) - 1) |->
                                 IF j < i THEN refreshing[j] ELSE refreshing[j + 1]]
    /\ AuthStep

\* NOW() passes the expires_at of a session.
SessionExpires ==
    /\ \E s \in sessions :
          /\ ~s.expired
          /\ sessions' = (sessions \ {s}) \cup {[s EXCEPT !.expired = TRUE]}
    /\ UNCHANGED <<resp, refreshing, generated>>
    /\ AuthStep

\* POST /nodes/file with one file part, up to the quota check: the handler
\* has read the owner's row of users and found room for the file.  Other
\* requests run before its transaction does.
UploadBegin(U) ==
    /\ Cardinality(uploads) < MaxInFlight
    /\ Cardinality(uploads) < Cardinality(FreeIds(DB))
    /\ \E actor \in U, parentID \in NodeIds \cup {NoNode}, name \in Names,
          size \in FileSizes \cup {QuotaBytes} :
          LET files == <<[name |-> name, size |-> size, fault |-> "none",
                          cleanup_fails |-> FALSE]>>
          IN /\ UploadChecks(DB, actor, parentID, files, QuotaBytes) = "pass"
             /\ uploads' = uploads \cup
                   {[actor |-> actor, parent |-> parentID, files |-> files,
                     ownerID |-> IF parentID # NoNode
                                 THEN nodes[parentID].owner_id ELSE actor,
                     parentFolderOwnerID |-> IF parentID # NoNode
                                             THEN nodes[parentID].owner_id
                                             ELSE NoNode]}
    /\ UNCHANGED <<nodes, shares, favorites, journal, used, blobs, pushed, resp,
                   moves>>
    /\ UNCHANGED hubVars
    /\ UNCHANGED <<sessions, refreshing, generated>>
    /\ UNCHANGED syncVars

\* The rest of that request: the transaction of its file, the publishes and
\* the response.
UploadCommit ==
    /\ Idle
    /\ \E u \in uploads :
          LET r == UploadTxs(DB, blobs, u.actor, u.ownerID, u.parent,
                             u.parentFolderOwnerID, u.files)
          IN /\ Store([op |-> "upload", actor |-> u.actor,
                       node |-> generateUniqueID(DB), name |-> u.files[1].name,
                       parent |-> u.parent, size |-> u.files[1].size,
                       status |-> ""], r)
             /\ conn' = PublishAll(clients, conn, r.pushes, 1)
             /\ uploads' = uploads \ {u}
    /\ UNCHANGED <<moves, clients, running>>
    /\ UNCHANGED <<sessions, refreshing, generated>>
    /\ UNCHANGED syncVars

\* The requests below leave the hub, the sessions and the requests that are
\* between their checks and their transactions alone.
SyncStep ==
    /\ UNCHANGED <<moves, uploads>>
    /\ UNCHANGED hubVars
    /\ UNCHANGED authVars

\* POST /nodes/{nodeId}/favorite up to the end of the function ExecTx runs:
\* AddFavorite has inserted the favorite and LogEvent the journal row, which
\* has its id; nothing is committed.  An insert of the same favorite by
\* another open transaction would wait for that transaction to end.
AddFavoriteBegin(U) ==
    /\ Cardinality(writing) < MaxInFlight
    /\ \E actor \in U, nodeID \in NodeIds :
          /\ AddFavorite(DB, actor, nodeID).err = "none"
          /\ \A w \in writing : <<w.actor, w.node>> # <<actor, nodeID>>
          /\ journal' = LogEventOpen(DB).journal
          /\ writing' = writing \cup {[actor |-> actor, node |-> nodeID,
                                       id |-> Len(journal) + 1]}
    /\ UNCHANGED <<nodes, shares, favorites, used, blobs, pushed, resp, received>>
    /\ SyncStep

\* The rest of that request: the commit, which may fail, the publish and
\* the response.
AddFavoriteCommit(F) ==
    /\ Idle
    /\ \E w \in writing, fault \in F :
          LET payload == [node_id |-> w.node]
              t == Ok(LogEventCommit([DB EXCEPT !.favorites = @ \cup {<<w.actor, w.node>>}],
                                     w.id, w.actor, "favorite_added", payload))
              tx == ExecTx(DB, t, fault = "commit")
              r == Reply(tx.db, blobs,
                         IF tx.err = "none" THEN "NoContent" ELSE "Internal",
                         PublishAfterCommit(tx.err,
                             <<Push(w.actor, "favorite_added", payload)>>))
          IN /\ Store([op |-> "favorite", actor |-> w.actor, node |-> w.node,
                       status |-> ""], r)
             /\ conn' = PublishAll(clients, conn, r.pushes, 1)
             /\ writing' = writing \ {w}
    /\ UNCHANGED <<moves, uploads, clients, running, received>>
    /\ UNCHANGED authVars

\* The largest id a client has received, 0 before the first.
LastReceived(ids) == IF ids = {} THEN 0 ELSE CHOOSE i \in ids : \A j \in ids : j <= i

\* GET /events?since= by a client that asks for what comes after the largest
\* id it has received so far, and keeps what it gets.
Poll(U) ==
    /\ Idle
    /\ \E actor \in U :
          LET sinceID == LastReceived(received[actor])
              events == GetEventsHandler(DB, actor, sinceID)
          IN /\ resp' = [op |-> "events", actor |-> actor, since |-> sinceID,
                         events |-> events, status |-> "OK"]
             /\ received' = [received EXCEPT ![actor] =
                                @ \cup {events[k].id : k \in 1..Len(events)}]
    /\ pushed' = <<>>
    /\ UNCHANGED <<nodes, shares, favorites, journal, used, blobs, writing>>
    /\ SyncStep

\* ------------------------------------------------------------ specifications

EmptyDB == [nodes |-> <<>>, shares |-> {}, favorites |-> {}, journal |-> <<>>,
            used |-> [u \in Users |-> 0]]

\* The server is idle on the store db and the blob storage bl.
StartWith(db, bl) ==
    /\ nodes = db.nodes
    /\ shares = db.shares
    /\ favorites = db.favorites
    /\ journal = db.journal
    /\ used = db.used
    /\ blobs = bl
    /\ pushed = <<>>
    /\ resp = NoRequest
    /\ moves = {}
    /\ clients = NewHub
    /\ conn = [c \in ConnIds |-> NoClient]
    /\ running = Select
    /\ sessions = {}
    /\ refreshing = <<>>
    /\ generated = 0
    /\ uploads = {}
    /\ writing = {}
    /\ received = [u \in Users |-> {}]

StartFrom(db) == StartWith(db, {})

\* The store after three requests on the store db/init.sql creates: user 1
\* created folder "a" at the root and folder "b" inside it, and shared "a"
\* with user 2, for writing (SharedAB) or for reading (ReadAB).
FolderA == CreateFolderHandler(EmptyDB, {}, 1, NoNode, "a", "none").db
FolderAB == CreateFolderHandler(FolderA, {}, 1, 1, "b", "none").db
SharedAB == ShareNodeHandler(FolderAB, {}, 1, 1, 2, "write", "none").db
ReadAB == ShareNodeHandler(FolderAB, {}, 1, 1, 2, "read", "none").db

Init == StartFrom(SharedAB)

\* Requests are served until the journal has grown by MaxJournal rows.
Serving == Len(journal) < Len(SharedAB.journal) + MaxJournal

\* Spec: every route, every principal and every store failure.
Next ==
    \/ Serving /\ CreateFolder(Users, Names, Faults)
    \/ Serving /\ UploadFile(Users, Faults)
    \/ Serving /\ DeleteNode(Users, Faults)
    \/ Serving /\ UpdateNode(Users, Faults)
    \/ Serving /\ RestoreNodeReq(Users, Faults)
    \/ Serving /\ PurgeTrashReq(Users, Faults)
    \/ Serving /\ ShareNodeReq(Users, Faults)
    \/ Serving /\ DeleteShareReq(Users, Faults)
    \/ Serving /\ AddFavoriteReq(Users, Faults)
    \/ Serving /\ RemoveFavoriteReq(Users, Faults)
    \/ Deliver

Spec == Init /\ [][Next]_vars

\* SpecTree: the folder and share routes while the store does not fail, with
\* a third name for new folders, from either of the two shared stores.
InitTree == StartFrom(SharedAB) \/ StartFrom(ReadAB)

NextTree ==
    \/ Serving /\ CreateFolder(Users, Names \cup {"c"}, {"none"})
    \/ Serving /\ DeleteNode(Users, {"none"})
    \/ Serving /\ RestoreNodeReq(Users, {"none"})
    \/ Serving /\ UpdateNode(Users, {"none"})
    \/ Serving /\ ShareNodeReq(Users, {"none"})
    \/ Serving /\ DeleteShareReq(Users, {"none"})
    \/ Deliver

SpecTree == InitTree /\ [][NextTree]_vars

\* SpecRace: folders are created and moved by requests that run concurrently;
\* a move's checks and its transaction are separate steps, as they are
\* separate statements on the pool with no lock or transaction around both.
NextRace ==
    \/ Serving /\ CreateFolder(Users, Names, {"none"})
    \/ Serving /\ MoveBegin(Users)
    \/ MoveCommit
    \/ Deliver

SpecRace == InitTree /\ [][NextRace]_vars

\* SpecDescendant: SpecRace with calls of IsDescendantOf on the trees that the
\* concurrent moves leave.
NextDescendant ==
    \/ Serving /\ CreateFolder(Users, Names, {"none"})
    \/ Serving /\ MoveBegin(Users)
    \/ MoveCommit
    \/ AskIsDescendantOf
    \/ Deliver

SpecDescendant == InitTree /\ [][NextDescendant]_vars

\* SpecUpload: uploads of one and of two files into the shared folder and
\* into the roots, with failing blob writes and failing commits.
SharedA == ShareNodeHandler(FolderA, {}, 1, 1, 2, "write", "none").db

InitUpload == StartFrom(SharedA)

ServingUpload == Len(journal) < Len(SharedA.journal) + MaxJournal

NextUpload ==
    \/ ServingUpload /\ UploadFile(Users, {"none"})
    \/ ServingUpload /\ UploadFiles(Users, {"none", "commit"})
    \/ Deliver

SpecUpload == InitUpload /\ [][NextUpload]_vars

\* SpecTrash: the node and trash routes while the database does not fail,
\* from two stores with a filled trash.  In TrashedB user 1 has trashed
\* folder "b"; in TrashedBF user 1 has uploaded the one-byte file "c" into
\* "b" and then trashed "b", which took the file along.
TrashedB == DeleteNodeHandler(SharedAB, {}, 1, 2, "none")
FileInB ==
    UploadFileHandler(SharedAB, {}, 1, 2,
        <<[name |-> "c", size |-> 1, fault |-> "none", cleanup_fails |-> FALSE]>>,
        QuotaBytes)
TrashedBF == DeleteNodeHandler(FileInB.db, FileInB.blobs, 1, 2, "none")

InitTrash ==
    \/ StartWith(TrashedB.db, TrashedB.blobs)
    \/ StartWith(TrashedBF.db, TrashedBF.blobs)

\* Requests are served until the journal of TrashedB has grown by MaxJournal
\* rows; a purge appends no row and is served at any time.
ServingTrash == Len(journal) < Len(TrashedB.db.journal) + MaxJournal

NextTrash ==
    \/ ServingTrash /\ CreateFolder(Users, Names, {"none"})
    \/ ServingTrash /\ UploadFile(Users, {"none"})
    \/ ServingTrash /\ DeleteNode(Users, {"none"})
    \/ ServingTrash /\ UpdateNode(Users, {"none"})
    \/ ServingTrash /\ RestoreNodeReq(Users, {"none"})
    \/ PurgeTrashReq(Users, {"none"})
    \/ Deliver

SpecTrash == InitTrash /\ [][NextTrash]_vars

\* SpecEvents: the journal is written by the folder and share routes of both
\* users, with failing transactions among them, and read by both.
NextEvents ==
    \/ Serving /\ CreateFolder(Users, Names, {"none", "log2"})
    \/ Serving /\ DeleteNode(Users, {"none"})
    \/ Serving /\ ShareNodeReq(Users, {"none"})
    \/ Serving /\ DeleteShareReq(Users, {"none"})
    \/ GetEvents(Users)
    \/ Deliver

SpecEvents == Init /\ [][NextEvents]_vars

\* SpecHub: connections are opened with good and with bad tokens, registered,
\* published to, drained and closed, while Hub.Run serves its two channels.
NextHub ==
    \/ ServeWs(Tokens)
    \/ RunReceiveRegister
    \/ RunReceiveUnregister
    \/ RunRegisterClient
    \/ RunUnregisterClient
    \/ ReadPumpFails
    \/ WritePumpWrites
    \/ WritePumpEnds
    \/ Publish(Users, {"e1"})
    \/ Deliver

SpecHub == StartFrom(EmptyDB) /\ [][NextHub]_vars

\* SpecQueue: connections that stay open are published to, with messages of
\* two types, while their WritePumps take messages or stall or end.
ValidTokens == {t \in Tokens : VerifyJWT(t) # NoNode}

NextQueue ==
    \/ ServeWs(ValidTokens)
    \/ RunReceiveRegister
    \/ RunRegisterClient
    \/ WritePumpWrites
    \/ Publish(Users, Events)
    \/ Deliver

SpecQueue == StartFrom(EmptyDB) /\ [][NextQueue]_vars

\* SpecHubCalls: connections are opened, registered and closed while clients
\* are sent on hub.Unregister a second time.
NextHubCalls ==
    \/ ServeWs(Tokens)
    \/ RunReceiveRegister
    \/ RunReceiveUnregister
    \/ RunRegisterClient
    \/ RunUnregisterClient
    \/ ReadPumpFails
    \/ WritePumpEnds
    \/ UnregisterAgain
    \/ Deliver

SpecHubCalls == StartFrom(EmptyDB) /\ [][NextHubCalls]_vars

\* Every user has logged in once; refresh tokens are exchanged, also by two
\* requests at a time, and sessions expire.
RECURSIVE LoggedIn(_)
LoggedIn(u) ==
    IF u = 0 THEN [sessions |-> {}, generated |-> 0]
    ELSE LoginHandler(LoggedIn(u - 1).sessions, LoggedIn(u - 1).generated, u, TRUE)

InitRefresh ==
    /\ nodes = EmptyDB.nodes
    /\ shares = EmptyDB.shares
    /\ favorites = EmptyDB.favorites
    /\ journal = EmptyDB.journal
    /\ used = EmptyDB.used
    /\ blobs = {}
    /\ pushed = <<>>
    /\ resp = NoRequest
    /\ moves = {}
    /\ clients = NewHub
    /\ conn = [c \in ConnIds |-> NoClient]
    /\ running = Select
    /\ sessions = LoggedIn(Cardinality(Users)).sessions
    /\ refreshing = <<>>
    /\ generated = LoggedIn(Cardinality(Users)).generated
    /\ uploads = {}
    /\ writing = {}
    /\ received = [u \in Users |-> {}]

RefreshTokens == 0..MaxTokens

NextRefresh ==
    \/ RefreshBegin(RefreshTokens)
    \/ RefreshCommit
    \/ SessionExpires
    \/ Deliver

SpecRefresh == InitRefresh /\ [][NextRefresh]_vars

\* The same with one refresh request in its transaction at a time.
SpecRefreshOneByOne ==
    InitRefresh /\ [][\/ refreshing = <<>> /\ RefreshBegin(RefreshTokens)
                      \/ RefreshCommit
                      \/ SessionExpires
                      \/ Deliver]_vars

\* SpecUploadRace: uploads of one file into the shared folder and into the
\* roots, served in one go or with other requests between the quota check
\* and the transaction.
ServingUploadRace ==
    /\ Len(journal) + Cardinality(uploads) < Len(SharedA.journal) + MaxJournal
    /\ Cardinality(uploads) < Cardinality(FreeIds(DB))

NextUploadRace ==
    \/ ServingUploadRace /\ UploadFile(Users, {"none"})
    \/ ServingUploadRace /\ UploadBegin(Users)
    \/ UploadCommit
    \/ Deliver

SpecUploadRace == InitUpload /\ [][NextUploadRace]_vars

\* SpecSync: both users add favorites, with transactions that are open at
\* the same time and commits that fail, and the client of each user polls
\* the journal for ever.

NextSync ==
    \/ Serving /\ AddFavoriteBegin(Users)
    \/ AddFavoriteCommit({"none", "commit"})
    \/ Poll(Users)
    \/ Deliver

SpecSync ==
    /\ Init /\ [][NextSync]_vars
    /\ \A u \in Users : SF_vars(Poll({u}))
    /\ WF_vars(Deliver)

\* The same with one transaction open at a time: rows commit in id order.
SpecSyncInOrder ==
    /\ Init
    /\ [][\/ Serving /\ writing = {} /\ AddFavoriteBegin(Users)
          \/ AddFavoriteCommit({"none", "commit"})
          \/ Poll(Users)
          \/ Deliver]_vars
    /\ \A u \in Users : SF_vars(Poll({u}))
    /\ WF_vars(Deliver)

\* SpecHubRace: publishes to user 1 next to connections of both users that
\* register, fail and are unregistered, once by their ReadPump and again by
\* another holder of the hub; no writer takes messages off the queues.
NextHubRace ==
    \/ ServeWs(ValidTokens)
    \/ RunReceiveRegister
    \/ RunReceiveUnregister
    \/ RunRegisterClient
    \/ RunUnregisterClient
    \/ ReadPumpFails
    \/ UnregisterAgain
    \/ Publish({1}, {"e1"})
    \/ Deliver

SpecHubRace == StartFrom(EmptyDB) /\ [][NextHubRace]_vars

\* SpecHubLive: connections of user 1 and publishes to user 1, with the
\* goroutine of Hub.Run and the pumps of every connection scheduled again
\* and again: a step of one of them that stays possible is taken.
NextHubLive ==
    \/ ServeWs({t \in ValidTokens : t.user_id = 1})
    \/ RunReceiveRegister
    \/ RunReceiveUnregister
    \/ RunRegisterClient
    \/ RunUnregisterClient
    \/ ReadPumpFails
    \/ WritePumpWrites
    \/ WritePumpEnds
    \/ Publish({1}, {"e1"})
    \/ Deliver

SpecHubLive ==
    /\ StartFrom(EmptyDB) /\ [][NextHubLive]_vars
    /\ WF_vars(RunRegisterClient) /\ WF_vars(RunUnregisterClient)
    /\ \A c \in ConnIds :
          /\ WF_vars(RunReceiveRegister /\ conn'[c] # conn[c])
          /\ WF_vars(RunReceiveUnregister /\ conn'[c] # conn[c])
          /\ WF_vars(WritePumpWrites /\ conn'[c] # conn[c])
          /\ WF_vars(WritePumpEnds /\ conn'[c] # conn[c])

\* ---------------------------------------------------------------- properties

\* A step that serves a request (Deliver and stuttering leave resp' idle or equal).
Served == resp'.op # "none" /\ resp.op = "none"

\* The journal rows the step appended, and the users that got one of type t.
Appended == SubSeq(journal', Len(journal) + 1, Len(journal'))
LoggedFor(t) == {Appended[k].user_id : k \in {j \in 1..Len(Appended) :
                                                Appended[j].event_type = t}}
StoreUnchanged ==
    /\ nodes' = nodes
    /\ shares' = shares
    /\ favorites' = favorites
    /\ journal' = journal
    /\ used' = used

\* The actor and, for a node of somebody else, its owner.
Audience(actor, owner) == {actor} \cup ({owner} \ {NoNode})

OwnerOfParent(parentID) ==
    IF parentID \in DOMAIN nodes THEN nodes[parentID].owner_id ELSE NoNode

\* create folder / upload: the row, the quota charge and the rows of
\* node_created come together or not at all.
CreateAtomic(r) ==
    IF r.status = "Created"
    THEN /\ r.node \in DOMAIN nodes' /\ r.node \notin DOMAIN nodes
         /\ nodes'[r.node].name = r.name /\ nodes'[r.node].parent_id = r.parent
         /\ LoggedFor("node_created") = Audience(r.actor, OwnerOfParent(r.parent))
         /\ r.op = "upload" =>
                used'[nodes'[r.node].owner_id] = used[nodes'[r.node].owner_id] + r.size
    ELSE StoreUnchanged

TrashAtomic(r) ==
    IF r.status = "NoContent"
    THEN /\ nodes'[r.node].deleted /\ ~nodes[r.node].deleted
         /\ LoggedFor("node_trashed") = Audience(r.actor, nodes[r.node].owner_id)
    ELSE StoreUnchanged

RestoreAtomic(r) ==
    IF r.status = "OK"
    THEN /\ ~nodes'[r.node].deleted /\ nodes[r.node].deleted
         /\ LoggedFor("node_restored") = {r.actor}
    ELSE StoreUnchanged

\* rename and move are two transactions of one request: each of them is
\* applied with its rows or not at all, and a refused request whose only
\* transaction failed leaves the store as it was.
UpdateAtomic(r) ==
    LET renamed == LoggedFor("node_renamed") # {}
        moved   == LoggedFor("node_moved") # {}
    IN /\ renamed => /\ r.name # "" /\ nodes'[r.node].name = r.name
                     /\ LoggedFor("node_renamed")
                            = Audience(r.actor, nodes[r.node].owner_id)
       /\ ~renamed => \A i \in DOMAIN nodes : nodes'[i].name = nodes[i].name
       /\ moved => /\ r.move /\ nodes'[r.node].parent_id = r.parent
                   /\ LoggedFor("node_moved")
                          = Audience(r.actor, nodes[r.node].owner_id)
       /\ ~moved => \A i \in DOMAIN nodes : nodes'[i].parent_id = nodes[i].parent_id
       /\ r.status = "OK" => (r.name # "" => renamed) /\ (r.move => moved)
       /\ r.status # "OK" => ~moved
       /\ (r.status # "OK" /\ ~(r.name # "" /\ r.move)) => StoreUnchanged

ShareAtomic(r) ==
    IF r.status = "Created"
    THEN /\ \E s \in shares' \ shares :
                s.id = r.share /\ s.node_id = r.node /\ s.recipient_id = r.to
         /\ LoggedFor("node_shared_with_you") = {r.to}
    ELSE StoreUnchanged

UnshareAtomic(r) ==
    IF r.status = "NoContent"
    THEN /\ \E s \in shares \ shares' :
                s.id = r.share /\ LoggedFor("share_revoked_for_you") = {s.recipient_id}
    ELSE StoreUnchanged

FavoriteAtomic(r) ==
    IF r.status = "NoContent"
    THEN IF r.op = "favorite"
         THEN /\ <<r.actor, r.node>> \in favorites' \ favorites
              /\ LoggedFor("favorite_added") = {r.actor}
         ELSE /\ <<r.actor, r.node>> \notin favorites'
              /\ LoggedFor("favorite_removed") = {r.actor}
    ELSE StoreUnchanged

OpAtomic(r) ==
    CASE r.op \in {"create_folder", "upload"} -> CreateAtomic(r)
      [] r.op = "trash"                        -> TrashAtomic(r)
      [] r.op = "restore"                      -> RestoreAtomic(r)
      [] r.op = "update"                       -> UpdateAtomic(r)
      [] r.op = "share"                        -> ShareAtomic(r)
      [] r.op = "unshare"                      -> UnshareAtomic(r)
      [] r.op \in {"favorite", "unfavorite"}   -> FavoriteAtomic(r)
      [] OTHER                                 -> TRUE

\* C1: for every mutating operation, a request whose transaction failed at
\* any statement (a journal append included) leaves no state change and no
\* journal row behind, and a request whose transaction committed has its
\* state change together with a journal row for each user it is logged for.
C1_TransactionAtomic == [][Served => OpAtomic(resp')]_vars

\* A write-share holder's create in another user's folder failed inside its
\* transaction, after the node insert.
C1_Witness ==
    /\ resp.op = "create_folder" /\ resp.status = "Internal"
    /\ resp.parent \in DOMAIN nodes
    /\ nodes[resp.parent].owner_id # resp.actor
    /\ resp.node \notin DOMAIN nodes

\* C2: every hub publish of a request repeats a journal row that the
\* request's committed transaction appended (same user, type and payload),
\* and a request whose transaction failed publishes nothing.
C2_PublishAfterCommit ==
    [][Served =>
          /\ \A k \in 1..Len(pushed') :
                \E j \in 1..Len(Appended) : Appended[j] = pushed'[k]
          /\ journal' = journal => pushed' = <<>>]_vars

\* A trash request failed inside its transaction and published nothing.
C2_Witness ==
    /\ resp.op = "trash" /\ resp.status = "Internal"
    /\ pushed = <<>>
    /\ resp.node \in DOMAIN nodes /\ ~nodes[resp.node].deleted

\* The request may create under r.parent: the checks CreateFolderHandler
\* makes before its transaction pass.
MayCreateAt(r) ==
    /\ CheckWritePermission(DB, r.actor, r.parent)
    /\ r.parent # NoNode => GetNodeIfAccessible(DB, r.parent, r.actor) # NoNode

\* A live node of the resolved owner already has r.name under r.parent.
LiveTwin(r) ==
    LET owner == IF r.parent # NoNode THEN nodes[r.parent].owner_id ELSE r.actor
    IN \E i \in DOMAIN nodes : /\ ~nodes[i].deleted
                               /\ nodes[i].owner_id = owner
                               /\ nodes[i].parent_id = r.parent
                               /\ nodes[i].name = r.name

\* C3: at any location the actor may create in (the owner's root included),
\* creating a folder whose name a live node there already has fails with
\* Conflict, and, while the store does not fail, creating one whose name no
\* live node there has (the name may belong to a trashed node) succeeds.
C3_NameFreedByTrash ==
    [][(Served /\ resp'.op = "create_folder" /\ MayCreateAt(resp')) =>
          IF LiveTwin(resp') THEN resp'.status = "Conflict"
          ELSE resp'.status = "Created"]_vars

\* A create at the root answered Conflict although the only node of that
\* name is in the trash.
C3_Witness ==
    /\ resp.op = "create_folder" /\ resp.status = "Conflict"
    /\ resp.parent = NoNode
    /\ \E i \in DOMAIN nodes : /\ nodes[i].deleted
                               /\ nodes[i].owner_id = resp.actor
                               /\ nodes[i].name = resp.name
    /\ \A i \in DOMAIN nodes :
          (nodes[i].owner_id = resp.actor /\ nodes[i].name = resp.name)
              => nodes[i].deleted

\* A move-only request for a live folder by a principal who may write both
\* where the folder is and at the destination.
MoveOfFolder(r) ==
    /\ r.op = "update" /\ r.move /\ r.name = ""
    /\ GetNodeIfAccessible(DB, r.node, r.actor) # NoNode
    /\ nodes[r.node].node_type = "folder"
    /\ r.parent # NoNode /\ GetNodeIfAccessible(DB, r.parent, r.actor) # NoNode
    /\ CheckWritePermission(DB, r.actor, nodes[r.node].parent_id)
    /\ CheckWritePermission(DB, r.actor, r.parent)

Refused(r) == r.status = "InvalidOperation" /\ nodes' = nodes

\* The proper ancestors of a node: what following parent links reaches.
AncestorsOf(n) == node_parents(nodes, n) \ {n}

\* What following child links reaches below a node.
BelowOf(n) == node_children(nodes, n) \ {n}

C5_Acyclic == \A n \in DOMAIN nodes : n \notin Up(nodes, {n}, {})

\* Two folders are each other's parent after two moves that were both
\* checked before either was committed.
C5_Witness ==
    \E n, m \in DOMAIN nodes :
        /\ n # m
        /\ nodes[n].node_type = "folder" /\ nodes[m].node_type = "folder"
        /\ nodes[n].parent_id = m /\ nodes[m].parent_id = n

\* The principal holds a write share on the node or on a node above it.
WriteShareOnChain(userID, nodeID) ==
    \E s \in shares : /\ s.recipient_id = userID
                      /\ s.permissions = "write"
                      /\ s.node_id \in node_parents(nodes, nodeID)

\* C6: a principal who is not the owner of a live node and holds no write
\* share on the node's parent chain cannot rename, move or trash it, also
\* when the node is at the root of its owner's tree and read-shared with the
\* principal: the request is refused and the store stays as it was.
C6_NoWriteWithoutGrant ==
    [][(Served /\ resp'.op \in {"trash", "update"}
          /\ resp'.node \in DOMAIN nodes /\ ~nodes[resp'.node].deleted
          /\ nodes[resp'.node].owner_id # resp'.actor
          /\ ~WriteShareOnChain(resp'.actor, resp'.node))
       => (resp'.status \in {"PermissionDenied", "NotFound"} /\ StoreUnchanged)]_vars

\* A read-share holder trashed a node at the root of its owner's tree.
C6_Witness ==
    /\ resp.op = "trash" /\ resp.status = "NoContent"
    /\ nodes[resp.node].deleted /\ nodes[resp.node].original_parent_id = NoNode
    /\ nodes[resp.node].owner_id # resp.actor
    /\ \E s \in shares : /\ s.recipient_id = resp.actor /\ s.node_id = resp.node
                         /\ s.permissions = "read"
    /\ \A s \in shares : s.recipient_id = resp.actor => s.permissions = "read"

\* The node k parent links above n (n itself for k = 0), NoNode past the top.
RECURSIVE AncestorAt(_, _)
AncestorAt(n, k) ==
    IF k = 0 \/ n \notin DOMAIN nodes THEN n
    ELSE AncestorAt(nodes[n].parent_id, k - 1)

\* The ancestor chain starting at n, inclusive.
Chain(n) == {AncestorAt(n, k) : k \in 0..Cardinality(DOMAIN nodes)} \cap DOMAIN nodes

OwnsOnChain(u, t) == \E n \in Chain(t) : nodes[n].owner_id = u

SharedOnChain(u, t, perms) ==
    \E s \in shares : /\ s.recipient_id = u
                      /\ s.permissions \in perms
                      /\ s.node_id \in Chain(t)

\* C7: for a non-null target folder, write permission is granted exactly
\* when the principal owns a node of the ancestor chain starting at the
\* target or holds a write share on a node of that chain; so a read share
\* grants none, and a write share grants none for a target whose chain does
\* not pass through the shared node.
C7_WritePermissionExact ==
    \A u \in Users, t \in NodeIds :
        /\ CheckWritePermission(DB, u, t)
              <=> (OwnsOnChain(u, t) \/ SharedOnChain(u, t, {"write"}))
        /\ (~OwnsOnChain(u, t) /\ \A s \in shares :
                (s.recipient_id = u /\ s.node_id \in Chain(t)) => s.permissions = "read")
              => ~CheckWritePermission(DB, u, t)
        /\ (~OwnsOnChain(u, t) /\ \A s \in shares :
                s.recipient_id = u => t \notin node_children(nodes, s.node_id))
              => ~CheckWritePermission(DB, u, t)

\* A user holds a write share on one folder and a read share on a folder of
\* another branch: writing is permitted below the first and not in the second.
C7_Witness ==
    \E u \in Users, sw, sr \in shares, t \in DOMAIN nodes :
        /\ sw.recipient_id = u /\ sw.permissions = "write"
        /\ sr.recipient_id = u /\ sr.permissions = "read"
        /\ nodes[t].parent_id = sw.node_id /\ nodes[t].owner_id # u
        /\ CheckWritePermission(DB, u, t)
        /\ sr.node_id \notin Chain(t) /\ sw.node_id \notin Chain(sr.node_id)
        /\ ~CheckWritePermission(DB, u, sr.node_id)

\* C8: the lookup returns a node to a principal exactly when the node is
\* live and the principal owns it or is the recipient of a share, read or
\* write, on the node or on one of its ancestors; in every other case it
\* answers nil, as it does for an id that names no node.
C8_ReadAccessExact ==
    \A u \in Users, n \in NodeIds :
        IF /\ n \in DOMAIN nodes /\ ~nodes[n].deleted
           /\ (nodes[n].owner_id = u \/ SharedOnChain(u, n, Permissions))
        THEN GetNodeIfAccessible(DB, n, u) = n
        ELSE GetNodeIfAccessible(DB, n, u) = NoNode

\* A user reads a node of another owner through a share on the node's
\* ancestor only, and cannot read a live node outside the shared subtree.
C8_Witness ==
    \E u \in Users, n, m \in DOMAIN nodes :
        /\ nodes[n].owner_id # u /\ GetNodeIfAccessible(DB, n, u) = n
        /\ \A s \in shares : s.recipient_id = u => s.node_id \in Chain(n) \ {n}
        /\ ~nodes[m].deleted /\ GetNodeIfAccessible(DB, m, u) = NoNode

\* The store after the step.
DBNext == [nodes |-> nodes', shares |-> shares', favorites |-> favorites',
           journal |-> journal', used |-> used']

\* Every holder of a write share may write in the shared folder and in every
\* node below it, whenever that node was created.
GrantCoversSubtree ==
    \A s \in shares' :
        s.permissions = "write" =>
            \A d \in node_children(nodes', s.node_id) :
                CheckWritePermission(DBNext, s.recipient_id, d)

\* The write share a committed revoke request removed.
Revoked(r) ==
    {s \in shares : r.op = "unshare" /\ r.status = "NoContent"
                    /\ s.id = r.share /\ s.permissions = "write"}

\* Another share of the same recipient, of one of the permissions perms, is
\* left on node x or above it.
StillShared(s, x, perms) ==
    \E o \in shares' : /\ o.id # s.id
                       /\ o.recipient_id = s.recipient_id
                       /\ o.permissions \in perms
                       /\ o.node_id \in node_parents(nodes', x)

\* C9 as stated: a write share on folder A lets the recipient write in A and
\* in every present and later descendant of A, and once the share is revoked
\* the recipient has no access to A or to any of those descendants.
C9_RevokeRemovesAllAccess ==
    [][Served =>
          /\ GrantCoversSubtree
          /\ \A s \in Revoked(resp') :
                \A x \in node_children(nodes', s.node_id) :
                    /\ GetNodeIfAccessible(DBNext, x, s.recipient_id) = NoNode
                    /\ ~CheckWritePermission(DBNext, s.recipient_id, x)]_vars

\* C9 amended: a write share on folder A lets the recipient write in A and
\* in every present and later descendant of A, and once the share is revoked
\* the recipient reads A or a descendant only where another share of theirs
\* is left on that node or above it, and writes there only where a write
\* share of theirs is left.
C9_RevokeRemovesGrantedAccess ==
    [][Served =>
          /\ GrantCoversSubtree
          /\ \A s \in Revoked(resp') :
                \A x \in node_children(nodes', s.node_id) :
                    /\ GetNodeIfAccessible(DBNext, x, s.recipient_id) # NoNode
                          => StillShared(s, x, Permissions)
                    /\ CheckWritePermission(DBNext, s.recipient_id, x)
                          => StillShared(s, x, {"write"})]_vars

\* A write share was granted, a folder was then created below the shared
\* folder, and the share was revoked: the recipient reads neither the shared
\* folder nor the folder created since.
C9_Witness ==
    /\ resp.op = "unshare" /\ resp.status = "NoContent"
    /\ \E i, j, k \in 1..Len(journal) :
          /\ i < j /\ j < k /\ k = Len(journal)
          /\ journal[i].event_type = "node_shared_with_you"
          /\ journal[i].payload.share_info.permissions = "write"
          /\ journal[i].payload.share_info.id = resp.share
          /\ journal[j].event_type = "node_created"
          /\ journal[j].payload.parent_id
                \in node_children(nodes, journal[i].payload.share_info.node_id)
          /\ journal[k].event_type = "share_revoked_for_you"
          /\ journal[k].payload.node_id = journal[i].payload.share_info.node_id
          /\ LET u == journal[k].user_id
             IN /\ GetNodeIfAccessible(DB, journal[k].payload.node_id, u) = NoNode
                /\ GetNodeIfAccessible(DB, journal[j].payload.id, u) = NoNode
                /\ ~nodes[journal[j].payload.id].deleted

\* The node and everything that reaches it by parent links.
SubtreeOf(n) == {d \in DOMAIN nodes : n \in Chain(d)}

\* C10: a trash request that is carried out marks the node and every
\* descendant as deleted in the same step, copies each one's parent into
\* original_parent_id and clears its parent, leaves every other node as it
\* was, and afterwards no lookup and no listing returns any of them as live.
C10_TrashWholeSubtree ==
    [][(Served /\ resp'.op = "trash" /\ resp'.status = "NoContent") =>
          /\ ~nodes[resp'.node].deleted
          /\ DOMAIN nodes' = DOMAIN nodes
          /\ \A d \in SubtreeOf(resp'.node) :
                /\ nodes'[d].deleted
                /\ nodes'[d].original_parent_id = nodes[d].parent_id
                /\ nodes'[d].parent_id = NoNode
                /\ \A u \in Users :
                      /\ GetNodeIfAccessible(DBNext, d, u) = NoNode
                      /\ GetNodeByID(DBNext, d, u) = NoNode
                      /\ d \notin ListFavorites(DBNext, u)
                      /\ \A p \in NodeIds \cup {NoNode} :
                            d \notin GetNodesByParentID(DBNext, u, p)
          /\ \A i \in DOMAIN nodes \ SubtreeOf(resp'.node) : nodes'[i] = nodes[i]]_vars

\* A folder was trashed together with its child and its grandchild.
C10_Witness ==
    /\ resp.op = "trash" /\ resp.status = "NoContent"
    /\ \E c, g \in DOMAIN nodes :
          /\ nodes[resp.node].deleted /\ nodes[c].deleted /\ nodes[g].deleted
          /\ nodes[c].original_parent_id = resp.node
          /\ nodes[g].original_parent_id = c
          /\ nodes[c].parent_id = NoNode /\ nodes[g].parent_id = NoNode

\* ----------------------------------------------------------- trash and restore

\* Row n went from live to trashed, stayed trashed, or came back in this step.
Kept(n) == n \in DOMAIN nodes /\ n \in DOMAIN nodes'
GoesToTrash(n) == Kept(n) /\ ~nodes[n].deleted /\ nodes'[n].deleted
StaysInTrash(n) == Kept(n) /\ nodes[n].deleted /\ nodes'[n].deleted
ComesBack(n) == Kept(n) /\ nodes[n].deleted /\ ~nodes'[n].deleted

\* A live node of the same owner has the name of trashed node n in the
\* folder n was trashed from.
SlotOccupied(n) ==
    \E i \in DOMAIN nodes : /\ i # n /\ ~nodes[i].deleted
                             /\ nodes[i].owner_id = nodes[n].owner_id
                             /\ nodes[i].parent_id = nodes[n].original_parent_id
                             /\ nodes[i].name = nodes[n].name

\* C11: trash followed by restore gives the row back as it was before the
\* trash, in its original parent.  The trash records the parent in
\* original_parent_id of a row that had none and changes nothing else but
\* the trash mark and the parent link; no request changes a row while it is
\* in the trash; only a restore of that very node brings a row back, and it
\* puts the recorded parent back and clears the record.  A restore by the
\* owner while a live node of the same name is in the original folder fails
\* with Conflict and leaves the node in the trash.
C11_RestoreRoundTrip ==
    [][Served =>
          /\ \A n \in NodeIds :
                /\ GoesToTrash(n) =>
                      /\ nodes[n].original_parent_id = NoNode
                      /\ nodes'[n] = [nodes[n] EXCEPT
                                          !.deleted = TRUE,
                                          !.original_parent_id = nodes[n].parent_id,
                                          !.parent_id = NoNode]
                /\ StaysInTrash(n) => nodes'[n] = nodes[n]
                /\ ComesBack(n) =>
                      /\ resp'.op = "restore" /\ resp'.node = n
                      /\ nodes'[n] = [nodes[n] EXCEPT
                                          !.deleted = FALSE,
                                          !.parent_id = nodes[n].original_parent_id,
                                          !.original_parent_id = NoNode]
          /\ (/\ resp'.op = "restore"
              /\ resp'.node \in DOMAIN nodes
              /\ nodes[resp'.node].deleted
              /\ nodes[resp'.node].owner_id = resp'.actor
              /\ SlotOccupied(resp'.node))
                => resp'.status = "Conflict" /\ nodes' = nodes]_vars

\* A restore has put a node back into the folder it was trashed from.
C11_Witness ==
    /\ resp.op = "restore" /\ resp.status = "OK"
    /\ ~nodes[resp.node].deleted
    /\ nodes[resp.node].parent_id # NoNode
    /\ nodes[resp.node].original_parent_id = NoNode

\* A restore was refused with Conflict: a live twin holds the slot.
RestoreConflictSeen ==
    /\ resp.op = "restore" /\ resp.status = "Conflict"
    /\ nodes[resp.node].deleted
    /\ SlotOccupied(resp.node)

\* The trashed rows that were in the subtree of n when they were trashed:
\* reached from n through original_parent_id.
RECURSIVE TrashedBelow(_, _)
TrashedBelow(ns, found) ==
    LET more == {i \in DOMAIN ns : ns[i].deleted /\ ns[i].original_parent_id \in found}
                    \ found
    IN IF more = {} THEN found ELSE TrashedBelow(ns, found \cup more)

\* C12: a restore that is carried out reinstates the requested node only:
\* every other row is as it was, so the rows trashed below it are still
\* trashed and still have no parent.
C12_RestoreSingleNode ==
    [][(Served /\ resp'.op = "restore" /\ resp'.status = "OK") =>
          /\ DOMAIN nodes' = DOMAIN nodes
          /\ \A i \in DOMAIN nodes \ {resp'.node} : nodes'[i] = nodes[i]
          /\ \A i \in TrashedBelow(nodes, {resp'.node}) \ {resp'.node} :
                nodes'[i].deleted /\ nodes'[i].parent_id = NoNode]_vars

\* A folder is back while a node trashed together with it is still in the
\* trash, without a parent.
C12_Witness ==
    /\ resp.op = "restore" /\ resp.status = "OK"
    /\ nodes[resp.node].node_type = "folder" /\ ~nodes[resp.node].deleted
    /\ \E i \in DOMAIN nodes : /\ nodes[i].deleted
                               /\ nodes[i].original_parent_id = resp.node
                               /\ nodes[i].parent_id = NoNode

\* -------------------------------------------------------------------- purge

\* The rows a step destroyed, and the files among them.
Destroyed == DOMAIN nodes \ DOMAIN nodes'
DestroyedFiles == {i \in Destroyed : nodes[i].node_type = "file"}
TrashOf(u) == {i \in DOMAIN nodes : nodes[i].owner_id = u /\ nodes[i].deleted}

\* A purge that was carried out.
Purged == Served /\ resp'.op = "purge" /\ resp'.status = "NoContent"

\* C13: a purge destroys every trashed node of the principal and no node of
\* another owner, and the query returns exactly the ids of the file nodes
\* that were destroyed and the sum of their sizes.
C13_PurgeReturnsDestroyedFiles ==
    [][Purged =>
          /\ TrashOf(resp'.actor) \subseteq Destroyed
          /\ \A i \in Destroyed : nodes[i].owner_id = resp'.actor
          /\ PurgeTrash(DB, resp'.actor).deletedFileIDs = DestroyedFiles
          /\ PurgeTrash(DB, resp'.actor).totalSizeFreed
                = SumSizes(nodes, DestroyedFiles)]_vars

\* What holds of every purge: the trashed rows of the principal are gone,
\* nothing of another owner is, and the query returns the trashed files with
\* the sum of their sizes.
PurgeReturnsTrashedFiles ==
    [][Purged =>
          LET files == {i \in TrashOf(resp'.actor) : nodes[i].node_type = "file"}
          IN /\ TrashOf(resp'.actor) \subseteq Destroyed
             /\ \A i \in Destroyed : nodes[i].owner_id = resp'.actor
             /\ PurgeTrash(DB, resp'.actor).deletedFileIDs = files
             /\ PurgeTrash(DB, resp'.actor).totalSizeFreed = SumSizes(nodes, files)
             /\ used'[resp'.actor] = used[resp'.actor] - SumSizes(nodes, files)
             /\ blobs' = blobs \ files]_vars

\* A purge has destroyed a file that was not in the trash: its bytes are
\* still charged to the owner and its blob is still stored.
C13_Witness ==
    /\ resp.op = "purge" /\ resp.status = "NoContent"
    /\ \E i \in blobs : i \notin DOMAIN nodes
    /\ used[resp.actor] > SumSizes(nodes, {i \in DOMAIN nodes :
                                               nodes[i].owner_id = resp.actor})

\* ------------------------------------------------------------------- uploads

\* An upload request, the file parts it carries and the owner its files get.
IsUpload(r) == r.op \in {"upload", "upload_batch"}
PartsOf(r) == IF r.op = "upload_batch" THEN r.files
              ELSE <<[name |-> r.name, size |-> r.size]>>
UploadOwner(r) == IF r.parent # NoNode THEN nodes[r.parent].owner_id ELSE r.actor

RECURSIVE SumOfParts(_, _)
SumOfParts(parts, k) == IF k = 0 THEN 0 ELSE parts[k].size + SumOfParts(parts, k - 1)

\* C14: an upload that passed the permission and parent checks and whose
\* parts together would take the resolved owner's used bytes past the quota
\* is rejected: no blob is stored, the used bytes are as they were, and no
\* row and no journal row is written.
C14_QuotaRejectsBeforeBlob ==
    [][(/\ Served /\ IsUpload(resp') /\ MayCreateAt(resp')
        /\ used[UploadOwner(resp')]
              + SumOfParts(PartsOf(resp'), Len(PartsOf(resp'))) > QuotaBytes)
          => /\ resp'.status = "QuotaExceeded"
             /\ blobs' = blobs
             /\ StoreUnchanged
             /\ pushed' = <<>>]_vars

\* A write-share holder's two-part upload into the owner's folder was
\* rejected for the owner's quota although each part alone would have fitted.
C14_Witness ==
    /\ resp.op = "upload_batch" /\ resp.status = "QuotaExceeded"
    /\ resp.parent \in DOMAIN nodes
    /\ nodes[resp.parent].owner_id # resp.actor
    /\ \A k \in 1..2 :
          used[nodes[resp.parent].owner_id] + resp.files[k].size <= QuotaBytes
    /\ blobs = {i \in DOMAIN nodes : nodes[i].node_type = "file"}

\* A two-part upload that got past the permission, parent and quota checks.
BatchRuns(r) ==
    /\ r.op = "upload_batch" /\ MayCreateAt(r)
    /\ used[UploadOwner(r)] + SumOfParts(r.files, 2) <= QuotaBytes

\* Part k of the request should land: nothing fails in its transaction, and
\* its name is free at the location once the parts before it are in.
NameTaken(r, name) ==
    \E i \in DOMAIN nodes : /\ nodes[i].owner_id = UploadOwner(r)
                             /\ nodes[i].parent_id = r.parent
                             /\ nodes[i].name = name
Lands(r, k) ==
    /\ r.files[k].fault = "none"
    /\ ~NameTaken(r, r.files[k].name)
    /\ k = 2 => ~(r.files[1].fault = "none" /\ ~NameTaken(r, r.files[1].name)
                    /\ r.files[1].name = r.files[2].name)
Landing(r) == {k \in 1..2 : Lands(r, k)}

CreatedRows == DOMAIN nodes' \ DOMAIN nodes

\* C15: in an upload of several files every part is processed whatever
\* happened to the others: each part that can land has its file row, and the
\* parts that failed (blob write, insert, journal append or commit) leave no
\* row, no quota charge and no journal row; when no cleanup fails (and none
\* had failed before, so that every stored blob belongs to a row), the blobs
\* stored afterwards are the old ones and those of the rows created.
C15_BatchIsolation ==
    [][(Served /\ BatchRuns(resp')) =>
          LET r == resp'
              owner == UploadOwner(r)
          IN /\ \A k \in Landing(r) :
                   \E n \in CreatedRows :
                       /\ nodes'[n].name = r.files[k].name
                       /\ nodes'[n].size_bytes = r.files[k].size
                       /\ nodes'[n].parent_id = r.parent
                       /\ nodes'[n].node_type = "file"
                       /\ nodes'[n].owner_id = owner
             /\ Cardinality(CreatedRows) = Cardinality(Landing(r))
             /\ \A n \in DOMAIN nodes : nodes'[n] = nodes[n]
             /\ used'[owner] = used[owner] + SumSizes(nodes', CreatedRows)
             /\ \A u \in Users \ {owner} : used'[u] = used[u]
             /\ Len(Appended) = Cardinality(CreatedRows)
                                  * Cardinality(Audience(r.actor, OwnerOfParent(r.parent)))
             /\ \A j \in 1..Len(Appended) : Appended[j].payload.id \in CreatedRows
             /\ (blobs \subseteq DOMAIN nodes
                    /\ \A k \in 1..2 : ~r.files[k].cleanup_fails)
                   => blobs' = blobs \cup CreatedRows
             /\ r.status = IF Landing(r) = {} THEN "Internal" ELSE "Created"]_vars

\* The first part's transaction failed after its blob was written, the
\* second part is in: one row, one blob, one charge.
C15_Witness ==
    /\ resp.op = "upload_batch" /\ resp.status = "Created"
    /\ resp.files[1].fault = "commit" /\ ~resp.files[1].cleanup_fails
    /\ resp.files[2].fault = "none"
    /\ \E n \in DOMAIN nodes :
          /\ nodes[n].node_type = "file" /\ nodes[n].name = resp.files[2].name
          /\ blobs = {n}
          /\ used[nodes[n].owner_id] = nodes[n].size_bytes

\* ------------------------------------------------------------ journal rows

\* The request was carried out: its transaction (for an update, each of its
\* transactions) committed.
Committed(r) ==
    CASE r.op \in {"create_folder", "upload", "upload_batch"} -> r.status = "Created"
      [] r.op \in {"update", "restore"}                       -> r.status = "OK"
      [] r.op \in {"trash", "purge"}                          -> r.status = "NoContent"
      [] OTHER                                                -> FALSE

\* The step changed the tree.
TreeChanged == nodes' # nodes

\* C16: a create, rename, move, trash, restore or purge that committed a
\* change of the tree appended at least one journal row with it.
C16_CommitAppendsRow ==
    [][(Served /\ Committed(resp') /\ TreeChanged) => Len(Appended) >= 1]_vars

\* What holds: every committed tree operation other than purge appended a
\* journal row, whether or not it changed a row.
CommitAppendsRowButPurge ==
    [][(Served /\ Committed(resp') /\ resp'.op # "purge") => Len(Appended) >= 1]_vars

\* A purge has destroyed a node the journal knows as trashed, and the last
\* journal row is still the one of an earlier request.
C16_Witness ==
    /\ resp.op = "purge" /\ resp.status = "NoContent"
    /\ \E j \in 1..Len(journal) :
          /\ journal[j].event_type = "node_trashed"
          /\ journal[j].payload.id \notin DOMAIN nodes
    /\ \A j \in 1..Len(journal) :
          journal[j].event_type \in {"node_created", "node_renamed", "node_moved",
                                     "node_trashed", "node_restored",
                                     "node_shared_with_you"}

\* The rows of type t the step appended, in order.
RowsOf(t) == SelectSeq(Appended, LAMBDA e : e.event_type = t)

\* Exactly one row of type t for the actor and, when the owner is somebody
\* else, exactly one more for the owner with the same payload.
PairLogged(t, actor, owner) ==
    LET rows == RowsOf(t)
    IN IF actor # owner
       THEN /\ Len(rows) = 2
            /\ rows[1].user_id = actor /\ rows[2].user_id = owner
            /\ rows[1].payload = rows[2].payload
       ELSE Len(rows) = 1 /\ rows[1].user_id = actor

\* The owner of the location a create request names: the folder's owner, or
\* the actor for the root.
LocationOwner(r) == IF r.parent # NoNode THEN nodes[r.parent].owner_id ELSE r.actor

\* C17: a committed create, upload, rename, move or trash appends exactly
\* one journal row for the actor and, when the node's (folder's) owner is
\* another user, exactly one for that owner, with the same event type and
\* payload; when the actor is the owner it appends exactly one row.
C17_OneRowPerRecipient ==
    [][Served =>
          LET r == resp'
          IN /\ (r.op \in {"create_folder", "upload"} /\ r.status = "Created")
                   => /\ PairLogged("node_created", r.actor, LocationOwner(r))
                      /\ Len(Appended) = Len(RowsOf("node_created"))
             /\ (r.op = "trash" /\ r.status = "NoContent")
                   => /\ PairLogged("node_trashed", r.actor, nodes[r.node].owner_id)
                      /\ Len(Appended) = Len(RowsOf("node_trashed"))
             /\ r.op = "update"
                   => /\ \A t \in {"node_renamed", "node_moved"} :
                            RowsOf(t) # <<>>
                                => PairLogged(t, r.actor, nodes[r.node].owner_id)
                      /\ Len(Appended) = Len(RowsOf("node_renamed"))
                                           + Len(RowsOf("node_moved"))
                      /\ r.status = "OK"
                            => /\ r.name # "" => RowsOf("node_renamed") # <<>>
                               /\ r.move => RowsOf("node_moved") # <<>>]_vars

\* A write-share holder has renamed a node in the owner's folder: the last
\* two journal rows are the actor's and the owner's node_renamed.
C17_Witness ==
    /\ resp.op = "update" /\ resp.status = "OK" /\ resp.name # "" /\ ~resp.move
    /\ nodes[resp.node].owner_id # resp.actor
    /\ nodes[resp.node].parent_id # NoNode
    /\ Len(journal) >= 2
    /\ LET n == Len(journal)
       IN /\ journal[n - 1].event_type = "node_renamed"
          /\ journal[n].event_type = "node_renamed"
          /\ journal[n - 1].user_id = resp.actor
          /\ journal[n].user_id = nodes[resp.node].owner_id
          /\ journal[n - 1].payload = journal[n].payload

\* ---------------------------------------------------------------- publishes

\* Journal row e of the step was also published: same user, type, payload.
Published(e) == \E k \in 1..Len(pushed') : pushed'[k] = e

\* C18: every user who got a journal row of a committed mutation is also
\* the target of a hub publish with the same event type and payload, for
\* each event of a request (an update that renames and moves included).
C18_EveryRowPublished ==
    [][Served => \A j \in 1..Len(Appended) : Published(Appended[j])]_vars

\* What holds: the only journal row without its publish is the owner's
\* node_moved of an update by another user that also renamed the node.
RowPublishedButOwnersMove ==
    [][Served =>
          \A j \in 1..Len(Appended) :
              \/ Published(Appended[j])
              \/ /\ resp'.op = "update" /\ resp'.name # "" /\ resp'.move
                 /\ Appended[j].event_type = "node_moved"
                 /\ Appended[j].user_id = nodes[resp'.node].owner_id
                 /\ Appended[j].user_id # resp'.actor]_vars

\* A write-share holder's update renamed and moved a node of the owner: the
\* journal has the owner's node_moved row, the publishes have none for the
\* owner.
C18_Witness ==
    /\ resp.op = "update" /\ resp.status = "OK" /\ resp.name # "" /\ resp.move
    /\ nodes[resp.node].owner_id # resp.actor
    /\ journal[Len(journal)].event_type = "node_moved"
    /\ journal[Len(journal)].user_id = nodes[resp.node].owner_id
    /\ \A k \in 1..Len(pushed) :
          ~(pushed[k].event_type = "node_moved"
            /\ pushed[k].user_id = nodes[resp.node].owner_id)
    /\ \E k \in 1..Len(pushed) :
          pushed[k].event_type = "node_renamed"
          /\ pushed[k].user_id = nodes[resp.node].owner_id

\* ---------------------------------------------------------------- ownership

\* Every row with a parent has the owner of its parent row.
OwnerFollowsParent(ns) ==
    \A n \in DOMAIN ns :
        (ns[n].parent_id # NoNode /\ ns[n].parent_id \in DOMAIN ns)
            => ns[n].owner_id = ns[ns[n].parent_id].owner_id

\* An update with a move part that names a node and a destination the actor
\* can see, where the destination (the actor's own root for "root") belongs
\* to another owner than the node.
MoveAcrossOwners(r) ==
    /\ r.op = "update" /\ r.move
    /\ GetNodeIfAccessible(DB, r.node, r.actor) # NoNode
    /\ r.parent # NoNode => GetNodeIfAccessible(DB, r.parent, r.actor) # NoNode
    /\ nodes[r.node].owner_id
          # (IF r.parent # NoNode THEN nodes[r.parent].owner_id ELSE r.actor)

\* A node created inside a folder belongs to the folder's owner.
CreatedForFolderOwner(r) ==
    (r.op \in {"create_folder", "upload"} /\ r.status = "Created"
     /\ r.parent # NoNode)
        => nodes'[r.node].owner_id = nodes[r.parent].owner_id

\* C19: every node with a parent has its parent's owner; a node created in
\* another user's folder by a write-share holder is owned by the folder's
\* owner; a request to move a node to a destination of another owner is
\* refused and leaves the node's row as it was.
C19_OwnerFollowsParent ==
    [][/\ OwnerFollowsParent(nodes')
       /\ Served =>
             /\ CreatedForFolderOwner(resp')
             /\ MoveAcrossOwners(resp')
                   => /\ resp'.status # "OK"
                      /\ nodes'[resp'.node] = nodes[resp'.node]]_vars

\* What holds: the invariant, the owner of created nodes, and for a move
\* across owners the refusal with parent and owner of the node unchanged and
\* no node_moved row; the whole store is unchanged when the request carries
\* no new name.
OwnerFollowsParentMovePart ==
    [][/\ OwnerFollowsParent(nodes')
       /\ Served =>
             /\ CreatedForFolderOwner(resp')
             /\ MoveAcrossOwners(resp')
                   => /\ resp'.status # "OK"
                      /\ nodes'[resp'.node].parent_id = nodes[resp'.node].parent_id
                      /\ nodes'[resp'.node].owner_id = nodes[resp'.node].owner_id
                      /\ RowsOf("node_moved") = <<>>
                      /\ resp'.name = "" => StoreUnchanged]_vars

\* A write-share holder asked to rename a node of the owner and to move it
\* to the own root: the move was refused, the node has the new name.
C19_Witness ==
    /\ resp.op = "update" /\ resp.move /\ resp.parent = NoNode
    /\ resp.status = "InvalidOperation"
    /\ nodes[resp.node].owner_id # resp.actor
    /\ nodes[resp.node].parent_id # NoNode
    /\ nodes[resp.node].name = resp.name
    /\ journal[Len(journal)].event_type = "node_renamed"
    /\ journal[Len(journal)].payload.id = resp.node
    /\ journal[Len(journal)].payload.old_name # resp.name

\* ------------------------------------------------------------------- shares

\* At most one share row per (node, recipient), none from a user to itself.
SharesWellFormed(ss) ==
    /\ \A s, t \in ss :
          (s.node_id = t.node_id /\ s.recipient_id = t.recipient_id) => s = t
    /\ \A s \in ss : s.recipient_id # s.sharer_id

\* The owner of a live node shares it with a user who has a share of it.
SharesAgain(r) ==
    /\ r.op = "share"
    /\ GetNodeByID(DB, r.node, r.actor) # NoNode
    /\ r.to # r.actor
    /\ \E s \in shares : s.node_id = r.node /\ s.recipient_id = r.to

\* C20: there is at most one share row per (node, recipient) and no share
\* whose recipient is its granter; sharing a node again with the same
\* recipient fails with Conflict and leaves the existing share as it was.
C20_OneSharePerRecipient ==
    [][/\ SharesWellFormed(shares')
       /\ (Served /\ SharesAgain(resp'))
             => /\ resp'.status = "Conflict"
                /\ StoreUnchanged
                /\ pushed' = <<>>]_vars

\* A second share of the same node with the same recipient, asking for the
\* other permission, was refused; the first share is as it was.
C20_Witness ==
    /\ resp.op = "share" /\ resp.status = "Conflict"
    /\ \E s \in shares : /\ s.node_id = resp.node
                         /\ s.recipient_id = resp.to
                         /\ s.sharer_id = resp.actor
                         /\ s.permissions # resp.permissions

\* ------------------------------------------------------------------ C21
\* The principal of the request owns the live node n.
OwnsLive(n) ==
    n \in DOMAIN nodes /\ ~nodes[n].deleted /\ nodes[n].owner_id = resp'.actor

\* The request names a share that the principal of the request did not grant.
ForeignShare ==
    \E s \in shares : s.id = resp'.share /\ s.sharer_id # resp'.actor

\* The request left the shares, the journal and the hub as they were.
SharesUntouched == shares' = shares /\ journal' = journal /\ pushed' = <<>>

\* C21: every share a request creates is a share of a live node that the
\* principal of the request owns, granted in that principal's name, and every
\* share a request removes was granted by the principal of the request; a
\* share request on a node the principal does not own, or that is not live,
\* and a delete request on a share somebody else granted, are answered
\* NotFound and leave the shares, the journal and the hub untouched.
C21_ShareByOwnerDeleteByGranter ==
    [][Served =>
        /\ \A s \in shares' \ shares :
              /\ resp'.op = "share"
              /\ s.node_id = resp'.node
              /\ s.sharer_id = resp'.actor
              /\ OwnsLive(s.node_id)
        /\ \A s \in shares \ shares' : s.sharer_id = resp'.actor
        /\ (resp'.op = "share" /\ ~OwnsLive(resp'.node))
              => resp'.status = "NotFound" /\ SharesUntouched
        /\ (resp'.op = "unshare" /\ ForeignShare)
              => resp'.status = "NotFound" /\ SharesUntouched
    ]_vars

\* A delete request on a share of somebody else was answered NotFound, and
\* the share is still there.
C21_Witness ==
    /\ resp.op = "unshare"
    /\ resp.status = "NotFound"
    /\ \E s \in shares : s.id = resp.share /\ s.sharer_id # resp.actor

\* A share request on a live node of somebody else was answered NotFound.
ShareByStrangerSeen ==
    /\ resp.op = "share"
    /\ resp.status = "NotFound"
    /\ resp.node \in DOMAIN nodes
    /\ ~nodes[resp.node].deleted
    /\ nodes[resp.node].owner_id # resp.actor

\* ------------------------------------------------------------------ C22
\* The ids of the journal rows of user u after the id since.
RowsAfter(u, since) ==
    {k \in 1..Len(journal) : journal[k].user_id = u /\ k > since}

PageIds(ev) == {ev[i].id : i \in 1..Len(ev)}

\* C22: a read of the journal by a user with a since id returns rows of that
\* user only, each with an id greater than since and with the type and the
\* payload the journal has under that id, in ascending id order; it returns
\* the lowest such ids without a gap, all of them when they are no more than
\* the page size and a full page otherwise; with since = 0 that is the user's
\* journal from its first row.
C22_ReadSince ==
    resp.op = "events" =>
        LET ev == resp.events
            want == RowsAfter(resp.actor, resp.since)
        IN /\ \A i \in 1..Len(ev) :
                 /\ ev[i].id \in want
                 /\ ev[i].event_type = journal[ev[i].id].event_type
                 /\ ev[i].payload = journal[ev[i].id].payload
           /\ \A i, j \in 1..Len(ev) : i < j => ev[i].id < ev[j].id
           /\ \A k \in want \ PageIds(ev) : \A i \in PageIds(ev) : i < k
           /\ Len(ev) = IF Cardinality(want) <= PageSize
                        THEN Cardinality(want) ELSE PageSize
           /\ resp.since = 0 /\ want # {}
                 => ev[1].id = CHOOSE k \in want : \A j \in want : k <= j

\* A read after the user's first row returned a full page that starts after a
\* row of the other user and leaves a later row of the reader for the next read.
C22_Witness ==
    /\ resp.op = "events"
    /\ resp.since \in 1..Len(journal)
    /\ journal[resp.since].user_id = resp.actor
    /\ Len(resp.events) = PageSize
    /\ Cardinality(RowsAfter(resp.actor, resp.since)) > PageSize
    /\ \E k \in resp.since + 1 .. resp.events[PageSize].id :
          journal[k].user_id # resp.actor

\* ------------------------------------------------------------------ C23
\* The connections the registry holds for user u, and for anybody.
ConnsOf(u) == IF u \in DOMAIN clients THEN clients[u] ELSE {}
Registered == UNION {clients[u] : u \in DOMAIN clients}

\* The step serves a handler's publish; the message it publishes.
Publishing == Served /\ resp'.op = "publish"
Published1 == EventMsg(pushed'[1])

\* The step is Hub.Run's call of unregisterClient.
Unregistering == running.op = "unregister" /\ running' = Select

\* C23: a publish to a user appends the message to the send queue of every
\* connection registered for that user that has room, and leaves the registry
\* and every connection of other users alone; with no connection registered
\* for the user it changes nothing in the hub.  Unregistering a connection
\* leaves every other connection as it was, registered ones registered, so
\* that later publishes still reach them.
C23_FanOut ==
    [][/\ Publishing =>
            /\ \A c \in ConnsOf(resp'.actor) :
                  Len(conn[c].send) < SendCap
                     => conn'[c].send = Append(conn[c].send, Published1)
            /\ \A c \in ConnIds \ ConnsOf(resp'.actor) : conn'[c] = conn[c]
            /\ clients' = clients
            /\ ConnsOf(resp'.actor) = {} => conn' = conn
       /\ Unregistering =>
            \A d \in ConnIds \ {running.client} :
                /\ conn'[d] = conn[d]
                /\ \A u \in Users : d \in ConnsOf(u) => d \in clients'[u]
    ]_vars

\* One of three connections of a user has been unregistered, and a publish
\* to the user has just reached the two that are left.
C23_Witness ==
    /\ resp.op = "publish"
    /\ Cardinality(ConnsOf(resp.actor)) = 2
    /\ \E c \in ConnIds \ Registered :
          conn[c].user_id = resp.actor /\ conn[c].closed
    /\ \A d \in ConnsOf(resp.actor) :
          conn[d].send = <<EventMsg(pushed[1])>>

\* A publish to a user without a connection, while the other user has one.
PublishToNobodySeen ==
    /\ resp.op = "publish"
    /\ ConnsOf(resp.actor) = {}
    /\ Registered # {}

\* ------------------------------------------------------------------ C24
\* C24: whatever the queues hold, a handler's publish to either user goes
\* through; it leaves the queue of a connection of that user as it was when
\* the queue was full, appends the message to the queue of every other
\* connection registered for the user, and leaves the connections of other
\* users, full or not, as they were.  No publish unregisters a connection or
\* closes a queue.
C24_PublishNeverBlocks ==
    /\ [](Idle => \A u \in Users, e \in Events : ENABLED Publish({u}, {e}))
    /\ [][Publishing =>
            /\ \A c \in ConnsOf(resp'.actor) :
                  conn'[c] = [conn[c] EXCEPT !.send =
                                 IF Len(@) = SendCap THEN @
                                 ELSE Append(@, Published1)]
            /\ \A c \in ConnIds \ ConnsOf(resp'.actor) : conn'[c] = conn[c]
            /\ clients' = clients
       ]_vars

\* A publish found the queue of one connection of the user full with older
\* messages and dropped the message there, while another connection of the
\* user got it, next to a connection of the other user.
C24_Witness ==
    /\ resp.op = "publish"
    /\ \E c, d \in ConnsOf(resp.actor) :
          /\ Len(conn[c].send) = SendCap
          /\ \A k \in 1..SendCap : conn[c].send[k] # EventMsg(pushed[1])
          /\ conn[d].send # <<>>
          /\ conn[d].send[Len(conn[d].send)] = EventMsg(pushed[1])
    /\ \E x \in Registered : conn[x].user_id # resp.actor

\* ------------------------------------------------------------------ C25
\* The registry holds no user with an empty set of connections.
NoEmptySet == \A u \in DOMAIN clients : clients[u] # {}

\* C25: the registry never holds an empty set.  A call of unregisterClient
\* for a connection that is registered takes it out of its user's set, closes
\* its send queue, deletes the user's entry when it was the user's last
\* connection and keeps the entry with the other connections otherwise; a
\* call for a connection that is not registered, one unregistered before
\* included, changes neither the registry nor any connection.
C25_UnregisterRemovesOnce ==
    /\ []NoEmptySet
    /\ [][Unregistering =>
            LET c == running.client
                u == conn[c].user_id
            IN IF c \in Registered
               THEN /\ c \in ConnsOf(u)
                    /\ c \notin UNION {clients'[v] : v \in DOMAIN clients'}
                    /\ ~conn[c].closed
                    /\ conn' = [conn EXCEPT ![c].closed = TRUE]
                    /\ IF clients[u] = {c}
                       THEN u \notin DOMAIN clients'
                       ELSE u \in DOMAIN clients' /\ clients'[u] = clients[u] \ {c}
                    /\ \A v \in DOMAIN clients \ {u} :
                          v \in DOMAIN clients' /\ clients'[v] = clients[v]
               ELSE clients' = clients /\ conn' = conn
       ]_vars

\* Hub.Run holds a second unregistration of a connection that was the last of
\* its user and is unregistered already, while the other user has one.
C25_Witness ==
    /\ running.op = "unregister"
    /\ conn[running.client].closed
    /\ conn[running.client].user_id \notin DOMAIN clients
    /\ Registered # {}

\* A connection was unregistered while its user keeps another one.
UnregisteredOneOfTwoSeen ==
    \E c \in ConnIds \ Registered :
        conn[c].closed /\ ConnsOf(conn[c].user_id) # {}

\* ------------------------------------------------------------------ C26
\* Where the hub has connection c: no Client made for it yet, made and not
\* yet in the registry, in the registry, or unregistered (unregisterClient
\* has closed its queue).
HubState(c) ==
    IF conn[c].pc = "none" THEN "None"
    ELSE IF conn[c].closed THEN "Unregistered"
    ELSE IF c \in Registered THEN "Registered"
    ELSE "Connecting"

\* The step is Hub.Run's call of registerClient.
Registering == running.op = "register" /\ running' = Select

\* C26: in every step every connection keeps its state or moves from made to
\* Connecting, from Connecting to Registered or from Registered to
\* Unregistered, and the registry holds no Unregistered connection.
\* registerClient is only ever called for a Connecting connection and
\* unregisterClient for a Registered one, and a publish leaves an
\* Unregistered connection and its closed queue as they were.
C26_ConnectionLifeCycle ==
    [][/\ \A c \in ConnIds :
            HubState(c)' = "Unregistered" => c \notin Registered'
       /\ \A c \in ConnIds :
            \/ HubState(c)' = HubState(c)
            \/ HubState(c) = "None" /\ HubState(c)' = "Connecting"
            \/ HubState(c) = "Connecting" /\ HubState(c)' = "Registered"
            \/ HubState(c) = "Registered" /\ HubState(c)' = "Unregistered"
       /\ Registering => HubState(running.client) = "Connecting"
       /\ Unregistering => HubState(running.client) = "Registered"
       /\ Publishing =>
            \A c \in ConnIds :
                HubState(c) = "Unregistered" => conn'[c] = conn[c]
    ]_vars

\* A publish has reached a connection of a user and gone past another
\* connection of that user that failed right after its handshake, was
\* registered all the same and then unregistered.
C26_Witness ==
    /\ resp.op = "publish"
    /\ \E c, d \in ConnIds :
          /\ conn[c].user_id = resp.actor
          /\ HubState(c) = "Unregistered"
          /\ conn[c].pc = "closed"
          /\ conn[c].send = <<>>
          /\ HubState(d) = "Registered"
          /\ d \in ConnsOf(resp.actor)
          /\ conn[d].send = <<EventMsg(pushed[1])>>

\* ReadPump is at its send on hub.Unregister while Hub.Run has not yet called
\* registerClient for the connection.
UnregisterWaitsForRegisterSeen ==
    /\ running.op = "register"
    /\ conn[running.client].pc = "unregistering"

\* ------------------------------------------------------------------ C27
\* The token is one a login issued and that has not expired.
GoodToken(t) == t # NoToken /\ t.signed /\ ~t.expired

\* The step serves a handshake of the push channel.
ShakingHands == Served /\ resp'.op = "ws"

\* C27: a handshake without a token, or with a token that is forged or has
\* expired, makes no Client and leaves the registry, every connection and
\* Hub.Run as they were; a Client is only ever made by a handshake with a
\* good token, for the user the token names.
C27_BadHandshakeRefused ==
    [][/\ (ShakingHands /\ ~GoodToken(resp'.token))
            => /\ UNCHANGED hubVars
               /\ resp'.client = 0
               /\ resp'.status # "SwitchingProtocols"
       /\ \A c \in ConnIds :
            (conn[c].pc = "none" /\ conn'[c].pc # "none")
               => /\ ShakingHands
                  /\ GoodToken(resp'.token)
                  /\ conn'[c].user_id = resp'.token.user_id
    ]_vars

\* A handshake with an expired token of a user was refused while the hub
\* has a connection of that user registered and room for more.
C27_Witness ==
    /\ resp.op = "ws"
    /\ resp.token # NoToken
    /\ resp.token.signed /\ resp.token.expired
    /\ resp.client = 0
    /\ ConnsOf(resp.token.user_id) # {}
    /\ \E c \in ConnIds : conn[c].pc = "none"

\* A handshake without a token was refused.
NoTokenRefusedSeen == resp.op = "ws" /\ resp.token = NoToken /\ resp.client = 0

\* ------------------------------------------------------------------ C28
\* p lies below n: n is reached from p by one or more parent links.
LiesBelow(p, n) ==
    /\ p \in DOMAIN nodes
    /\ \E k \in 1..Cardinality(DOMAIN nodes) : AncestorAt(p, k) = n

\* C28: a call IsDescendantOf(n, p) returns without an error, and it returns
\* true exactly when p is n or p lies below n.
C28_IsDescendantOfExact ==
    resp.op = "descendant" =>
        /\ resp.answer.err = "none"
        /\ resp.answer.isDescendant
              <=> (resp.parent = resp.node \/ LiesBelow(resp.parent, resp.node))

\* What holds: the call returns true exactly when p is n or lies below n, and
\* it returns false for every other p, proper ancestors of n and nodes of
\* other trees among them, when no node below n lies below itself; when one
\* does, the call for such a p ends with an error and no answer.
IsDescendantOfExactOnTrees ==
    resp.op = "descendant" =>
        LET n == resp.node
            p == resp.parent
            looping == n \in DOMAIN nodes
                       /\ \E c \in DOMAIN nodes :
                             (c = n \/ LiesBelow(c, n)) /\ LiesBelow(c, c)
        IN IF p = n \/ LiesBelow(p, n)
           THEN resp.answer = [isDescendant |-> TRUE, err |-> "none"]
           ELSE IF looping
           THEN resp.answer.err # "none"
           ELSE resp.answer = [isDescendant |-> FALSE, err |-> "none"]

\* Two folders are each other's parent and IsDescendantOf was asked whether a
\* third node, which is below neither, lies below one of them: the query had
\* to be cancelled.
C28_Witness ==
    /\ resp.op = "descendant"
    /\ resp.answer.err # "none"
    /\ resp.parent \in DOMAIN nodes
    /\ nodes[resp.node].node_type = "folder"
    /\ ~LiesBelow(resp.parent, resp.node)

\* IsDescendantOf answered false for a proper ancestor and for a node of
\* another tree.
AncestorAnsweredFalseSeen ==
    /\ resp.op = "descendant"
    /\ resp.answer = [isDescendant |-> FALSE, err |-> "none"]
    /\ LiesBelow(resp.node, resp.parent)

UnrelatedAnsweredFalseSeen ==
    /\ resp.op = "descendant"
    /\ resp.answer = [isDescendant |-> FALSE, err |-> "none"]
    /\ resp.node \in DOMAIN nodes /\ resp.parent \in DOMAIN nodes
    /\ Chain(resp.node) \cap Chain(resp.parent) = {}

\* ------------------------------------------------------------------ C29
IsUpdate(r) == r.op = "update"
NotLive(n) == n \notin DOMAIN nodes \/ nodes[n].deleted

\* A live row of the same owner under parent p, other than n, has that name.
NameUsedAt(n, p, name) ==
    \E j \in DOMAIN nodes \ {n} :
        /\ ~nodes[j].deleted
        /\ nodes[j].owner_id = nodes[n].owner_id
        /\ nodes[j].parent_id = p
        /\ nodes[j].name = name

\* A rename the principal is allowed to make, to the name of a sibling.
RenameToSiblingName(r) ==
    /\ IsUpdate(r) /\ r.name # ""
    /\ GetNodeIfAccessible(DB, r.node, r.actor) # NoNode
    /\ CheckWritePermission(DB, r.actor, nodes[r.node].parent_id)
    /\ NameUsedAt(r.node, nodes[r.node].parent_id, r.name)

\* A move without rename to a destination that is missing or in the trash.
MoveToMissingParent(r) ==
    /\ IsUpdate(r) /\ r.name = "" /\ r.move
    /\ GetNodeIfAccessible(DB, r.node, r.actor) # NoNode
    /\ r.parent # NoNode /\ NotLive(r.parent)

\* A move without rename that passes the handler's checks, to a destination
\* where the node's name is taken.
MoveToTakenName(r) ==
    /\ IsUpdate(r) /\ r.name = "" /\ r.move
    /\ GetNodeIfAccessible(DB, r.node, r.actor) # NoNode
    /\ MoveChecks(DB, r.actor, r.node, nodes[r.node], r.parent) = "pass"
    /\ r.parent # nodes[r.node].parent_id
    /\ NameUsedAt(r.node, r.parent, nodes[r.node].name)

UpdateFailed(r) == IsUpdate(r) /\ r.status \in {"Conflict", "NotFound"}

\* The failures as the claim lists them.
UpdateFailsAsListed(r) ==
    /\ (IsUpdate(r) /\ NotLive(r.node)) => r.status = "NotFound"
    /\ RenameToSiblingName(r) => r.status = "Conflict"
    /\ MoveToMissingParent(r) => r.status = "NotFound"
    /\ MoveToTakenName(r) => r.status = "Conflict"

\* C29: a rename to a sibling's name is answered Conflict and an update of a
\* node that is not live NotFound; a move to a destination where the name is
\* taken is answered Conflict and a move to a missing destination NotFound;
\* an update answered Conflict or NotFound leaves the name and the parent of
\* the node as they were and appends no journal row.
C29_UpdateFailuresLeaveNode ==
    [][Served =>
        /\ UpdateFailsAsListed(resp')
        /\ UpdateFailed(resp') =>
              /\ journal' = journal
              /\ resp'.node \in DOMAIN nodes =>
                    /\ nodes'[resp'.node].name = nodes[resp'.node].name
                    /\ nodes'[resp'.node].parent_id = nodes[resp'.node].parent_id
    ]_vars

\* What holds: the failures as listed; a failed update leaves the parent of
\* the node as it was and appends no node_moved row, and it leaves the whole
\* store as it was unless the request carried both a name and a destination
\* and failed in its move.
UpdateFailuresLeaveParent ==
    [][Served =>
        /\ UpdateFailsAsListed(resp')
        /\ UpdateFailed(resp') =>
              /\ RowsOf("node_moved") = <<>>
              /\ resp'.node \in DOMAIN nodes =>
                    nodes'[resp'.node].parent_id = nodes[resp'.node].parent_id
              /\ (resp'.name = "" \/ ~resp'.move) => StoreUnchanged
    ]_vars

\* A request renamed a folder and asked to move it to a destination where
\* the new name is taken: the move was answered Conflict, the folder has the
\* new name in its old place and the rename is in the journal.
C29_Witness ==
    /\ resp.op = "update" /\ resp.move /\ resp.name # ""
    /\ resp.status = "Conflict"
    /\ nodes[resp.node].name = resp.name
    /\ nodes[resp.node].parent_id # resp.parent
    /\ NameUsedAt(resp.node, resp.parent, resp.name)
    /\ journal[Len(journal)].event_type = "node_renamed"
    /\ journal[Len(journal)].payload.id = resp.node
    /\ journal[Len(journal)].payload.old_name # resp.name

\* The four failures of requests that carry a name or a destination only.
RenameConflictSeen ==
    /\ resp.op = "update" /\ ~resp.move /\ resp.status = "Conflict"
    /\ NameUsedAt(resp.node, nodes[resp.node].parent_id, resp.name)
RenameNotLiveSeen ==
    /\ resp.op = "update" /\ ~resp.move /\ resp.status = "NotFound"
    /\ resp.node \in DOMAIN nodes /\ nodes[resp.node].deleted
MoveConflictSeen ==
    /\ resp.op = "update" /\ resp.name = "" /\ resp.status = "Conflict"
    /\ NameUsedAt(resp.node, resp.parent, nodes[resp.node].name)
MoveNoParentSeen ==
    /\ resp.op = "update" /\ resp.name = "" /\ resp.status = "NotFound"
    /\ ~NotLive(resp.node) /\ NotLive(resp.parent)

\* ------------------------------------------------------------------ C39
\* An update that carries both a name and a destination.
RenameAndMove(r) == IsUpdate(r) /\ r.name # "" /\ r.move

\* C39: an update with a name and a destination that is not answered OK
\* leaves the store as it was and publishes nothing.
C39_RenameAndMoveAtomic ==
    [][(Served /\ RenameAndMove(resp') /\ resp'.status # "OK") =>
          /\ StoreUnchanged
          /\ pushed' = <<>>
    ]_vars

\* What holds: such an update leaves every other node, the parent of its own
\* node, the shares, the favorites and the storage counters as they were; the
\* journal rows it appends and the events it publishes are node_renamed ones.
RenameAndMoveLeavesParent ==
    [][(Served /\ RenameAndMove(resp') /\ resp'.status # "OK") =>
          /\ DOMAIN nodes' = DOMAIN nodes
          /\ \A i \in DOMAIN nodes :
                /\ i # resp'.node => nodes'[i] = nodes[i]
                /\ nodes'[i].parent_id = nodes[i].parent_id
          /\ shares' = shares /\ favorites' = favorites /\ used' = used
          /\ \A k \in 1..Len(Appended) : Appended[k].event_type = "node_renamed"
          /\ \A k \in 1..Len(pushed') : pushed'[k].event_type = "node_renamed"
    ]_vars

\* A request gave a node a new name and a destination the handler refuses
\* before it runs the move: the answer is the refusal, the node has the new
\* name, and the rename is the journal's last row and has been published.
C39_Witness ==
    /\ RenameAndMove(resp)
    /\ resp.status \in {"InvalidOperation", "PermissionDenied", "NotFound"}
    /\ nodes[resp.node].name = resp.name
    /\ journal[Len(journal)].event_type = "node_renamed"
    /\ journal[Len(journal)].payload.id = resp.node
    /\ journal[Len(journal)].payload.new_name = resp.name
    /\ journal[Len(journal)].payload.old_name # resp.name
    /\ \E k \in 1..Len(pushed) :
          /\ pushed[k].event_type = "node_renamed"
          /\ pushed[k].user_id = resp.actor
          /\ pushed[k].payload.id = resp.node

\* ------------------------------------------------------------------ C30
HasSession(refreshToken) == \E s \in sessions : s.refresh_token = refreshToken
IsRefresh(r) == r.op = "refresh"
Exchanged(r) == IsRefresh(r) /\ r.status = "OK"

\* No session carries a token the generator has yet to return, and no two
\* sessions carry the same token: a token whose session is gone stays gone.
TokensFresh ==
    /\ \A s \in sessions : s.refresh_token \in 1..generated
    /\ \A s1, s2 \in sessions : s1.refresh_token = s2.refresh_token => s1 = s2

\* C30: a refresh request is answered OK only while the session of its token
\* is in the table, and the step that answers it removes that session and
\* adds the session of the new token; tokens are never handed out twice, so
\* every token is exchanged at most once, and a request that comes after the
\* exchange or runs next to it is answered Unauthorized.
C30_ExchangedAtMostOnce ==
    /\ []TokensFresh
    /\ [][Served /\ IsRefresh(resp') =>
            /\ Exchanged(resp') =>
                  /\ HasSession(resp'.token)
                  /\ resp'.new_token = generated + 1
                  /\ sessions' =
                        {s \in sessions : s.refresh_token # resp'.token}
                        \cup {[user_id |-> resp'.actor,
                               refresh_token |-> resp'.new_token,
                               expired |-> FALSE]}
            /\ (resp'.token # EmptyToken /\ ~HasSession(resp'.token))
                  => resp'.status = "Unauthorized"
       ]_vars

\* What holds also for requests that run next to each other: an exchange
\* removes the session of the old token, if there is one, and adds the
\* session of a new one in one step; a request that finds no live session
\* for its token when it starts is answered Unauthorized and changes nothing.
ExchangeRotates ==
    /\ []TokensFresh
    /\ [][Served /\ IsRefresh(resp') =>
            /\ Exchanged(resp') =>
                  /\ resp'.new_token = generated + 1
                  /\ sessions' =
                        {s \in sessions : s.refresh_token # resp'.token}
                        \cup {[user_id |-> resp'.actor,
                               refresh_token |-> resp'.new_token,
                               expired |-> FALSE]}
            /\ refreshing' = refreshing =>
                  /\ resp'.status \in {"Unauthorized", "BadRequest"}
                  /\ resp'.status = "BadRequest" <=> resp'.token = EmptyToken
                  /\ GetUserByRefreshToken(sessions, resp'.token) = NoUser
                  /\ sessions' = sessions
            /\ refreshing' # refreshing => Exchanged(resp')
       ]_vars

\* Every user logged in once and no request has logged in since, and a user
\* holds two sessions, both made by exchanges: one token was exchanged twice.
C30_Witness ==
    /\ Exchanged(resp)
    /\ \E s1, s2 \in sessions :
          /\ s1.user_id = resp.actor /\ s2.user_id = resp.actor
          /\ s1.refresh_token = resp.new_token
          /\ s2.refresh_token # resp.new_token
          /\ s2.refresh_token > Cardinality(Users)
          /\ resp.token <= Cardinality(Users)

\* A token is refused after its exchange.
ExchangedTokenRefusedSeen ==
    /\ IsRefresh(resp) /\ resp.status = "Unauthorized"
    /\ resp.token \in 1..generated
    /\ ~HasSession(resp.token)

\* ------------------------------------------------------------------ C31
\* C31: a purge destroys only rows that are in the trash when it runs; no
\* live row is destroyed by a purge, whatever was trashed and restored before.
C31_PurgeSparesLive ==
    [][Purged => \A i \in Destroyed : nodes[i].deleted]_vars

\* What holds: a row a purge destroys is in the trash or hangs, through its
\* parent_id, below a row the same purge destroys.
PurgeSparesLiveOutsideTrash ==
    [][Purged => \A i \in Destroyed :
                    nodes[i].deleted \/ nodes[i].parent_id \in Destroyed]_vars

\* The last request that wrote to the store restored a node, and a purge
\* has destroyed that node.
C31_Witness ==
    /\ resp.op = "purge" /\ resp.status = "NoContent"
    /\ journal # <<>>
    /\ journal[Len(journal)].event_type = "node_restored"
    /\ journal[Len(journal)].payload.id \notin DOMAIN nodes

\* ------------------------------------------------------------------ C32
\* The file rows an owner has, live or in the trash.
FilesOf(u) == {i \in DOMAIN nodes : nodes[i].owner_id = u /\ nodes[i].node_type = "file"}

\* C32: the used-storage counter of every owner is the sum of the sizes of
\* the file rows the owner has, live or in the trash.
C32_UsedIsSumOfFiles ==
    \A u \in Users : used[u] = SumSizes(nodes, FilesOf(u))

\* What holds: the counter is never below that sum, and every step but a
\* purge keeps the two equal.
UsedCoversFiles ==
    /\ [](\A u \in Users : used[u] >= SumSizes(nodes, FilesOf(u)))
    /\ [][(C32_UsedIsSumOfFiles /\ ~Purged) => C32_UsedIsSumOfFiles']_vars

\* A purge has left an owner charged for more bytes than the owner's files
\* hold.
C32_Witness ==
    /\ resp.op = "purge" /\ resp.status = "NoContent"
    /\ used[resp.actor] > SumSizes(nodes, FilesOf(resp.actor))
    /\ used[resp.actor] > 0

\* ------------------------------------------------------------------ C33
\* C33: no owner's used-storage counter exceeds the owner's quota, also when
\* uploads charged to the same owner run at the same time.
C33_UsedWithinQuota == \A u \in Users : used[u] <= QuotaBytes

\* Two uploads charged to one owner have both been carried out and the
\* owner holds more bytes than the quota allows.
C33_Witness ==
    /\ resp.op = "upload" /\ resp.status = "Created"
    /\ \E u \in Users :
          /\ used[u] > QuotaBytes
          /\ Cardinality(FilesOf(u)) >= 2
          /\ SumSizes(nodes, FilesOf(u)) = used[u]

\* ------------------------------------------------------------------ C34
\* The ids the journal may reach.
JournalIds == 1..(Len(SharedAB.journal) + MaxJournal)
CommittedFor(u, k) == k <= Len(journal) /\ journal[k].user_id = u

\* C34: a client that keeps asking for the rows after the largest id it has
\* received eventually receives every row committed for its user, whatever
\* the order in which the transactions that wrote the rows commit.
C34_EveryRowReceived ==
    \A u \in Users : \A k \in JournalIds :
        CommittedFor(u, k) ~> (k \in received[u])

\* What holds in any order of commits: the client receives only rows that
\* are committed for its user.
ReceivedAreCommitted ==
    \A u \in Users : \A k \in received[u] : CommittedFor(u, k)

\* A row was committed for a user whose client has already received a row
\* with a larger id: no later read returns it.
C34_Witness ==
    \E u \in Users : \E k \in JournalIds :
        /\ CommittedFor(u, k)
        /\ k \notin received[u]
        /\ LastReceived(received[u]) > k
        /\ GetEventsSince(DB, u, LastReceived(received[u])) = <<>>
        /\ writing = {}

\* ------------------------------------------------------------------ C35
\* A trash request for a live node the principal may delete.
PermittedTrash(r) ==
    /\ r.op = "trash"
    /\ GetNodeIfAccessible(DB, r.node, r.actor) # NoNode
    /\ CheckWritePermission(DB, r.actor, nodes[r.node].parent_id)

\* A row of the subtree of n has the name of another row of the same owner
\* that is in the subtree too, at the owner's root or in the trash.
NameClashInTrash(n) ==
    \E i \in SubtreeOf(n) : \E j \in DOMAIN nodes \ {i} :
        /\ nodes[i].owner_id = nodes[j].owner_id
        /\ nodes[i].name = nodes[j].name
        /\ j \in SubtreeOf(n) \/ nodes[j].parent_id = NoNode

\* C35: a trash request for a live node the principal may delete is carried
\* out, whatever the names of the nodes below it, at the owner's root and in
\* the owner's trash.
C35_PermittedTrashSucceeds ==
    [][(Served /\ PermittedTrash(resp')) => resp'.status = "NoContent"]_vars

\* What holds: such a request is carried out unless names collide once the
\* rows of the subtree have lost their parent, and is answered with an
\* internal error and changes nothing when they do.
PermittedTrashSucceedsUnlessClash ==
    [][(Served /\ PermittedTrash(resp')) =>
          IF NameClashInTrash(resp'.node)
          THEN resp'.status = "Internal" /\ StoreUnchanged
          ELSE resp'.status = "NoContent"]_vars

\* A trash request for a live node the principal may delete was answered
\* with an internal error and the node is still live.
C35_Witness ==
    /\ resp.op = "trash" /\ resp.status = "Internal"
    /\ GetNodeIfAccessible(DB, resp.node, resp.actor) # NoNode
    /\ CheckWritePermission(DB, resp.actor, nodes[resp.node].parent_id)
    /\ NameClashInTrash(resp.node)

\* ------------------------------------------------------------------ C36
\* Row i is live and hangs under a row that is in the trash.
UnderTrashed(i) ==
    /\ ~nodes[i].deleted
    /\ nodes[i].parent_id \in DOMAIN nodes
    /\ nodes[nodes[i].parent_id].deleted

\* C36: the parent of every live node is null or a live node.
C36_LiveParentIsLive ==
    \A i \in DOMAIN nodes :
        ~nodes[i].deleted =>
            \/ nodes[i].parent_id = NoNode
            \/ /\ nodes[i].parent_id \in DOMAIN nodes
               /\ ~nodes[nodes[i].parent_id].deleted

\* What holds: the parent of a live node is null or a row of the table, and
\* only a restore puts a live node under a trashed one.
LiveParentIsLiveButRestore ==
    /\ [](\A i \in DOMAIN nodes :
             nodes[i].parent_id = NoNode \/ nodes[i].parent_id \in DOMAIN nodes)
    /\ [][(\E i \in DOMAIN nodes' :
              /\ ~nodes'[i].deleted
              /\ nodes'[i].parent_id \in DOMAIN nodes'
              /\ nodes'[nodes'[i].parent_id].deleted
              /\ ~(i \in DOMAIN nodes /\ UnderTrashed(i)))
           => (resp'.op = "restore" /\ resp'.status = "OK")]_vars

\* A restore has put a node back under its folder, which is in the trash.
C36_Witness ==
    /\ resp.op = "restore" /\ resp.status = "OK"
    /\ UnderTrashed(resp.node)

\* ------------------------------------------------------------------ C37
\* C37: the hub sends to and closes the queues of the registry only, and
\* every queue of the registry is open: no step adds a message to a closed
\* queue, and unregisterClient finds no client in the registry whose queue
\* is closed, so that it closes no queue a second time.
C37_ClosedQueueLeftAlone ==
    /\ [](\A c \in Registered : ~conn[c].closed)
    /\ [](\A c \in ConnIds : conn[c].closed => conn[c].pc # "none")
    /\ [][\A c \in ConnIds :
             conn[c].closed => /\ conn'[c].closed
                               /\ Len(conn'[c].send) <= Len(conn[c].send)]_vars
    /\ [][(running.op = "unregister" /\ conn[running.client].closed)
             => (running' = Select => (clients' = clients /\ conn' = conn))]_vars

\* A publish to a user was served while one of the user's connections was
\* closed, empty and about to be unregistered a second time, and reached the
\* user's other connection.
C37_Witness ==
    /\ resp.op = "publish"
    /\ running.op = "unregister"
    /\ conn[running.client].closed
    /\ conn[running.client].user_id = resp.actor
    /\ conn[running.client].send = <<>>
    /\ \E d \in ConnsOf(resp.actor) : conn[d].send # <<>>

\* ------------------------------------------------------------------ C38
\* The read of connection c has failed and its ReadPump is at its send on
\* hub.Unregister.
ReadFailed(c) == conn[c].pc = "unregistering"

\* C38: a connection whose read has failed is eventually out of the registry
\* with its queue closed, and its WritePump eventually ends; the goroutine of
\* Hub.Run is never stuck: between two receives it can take every client
\* that waits at a channel of the hub, and after a receive it can make its
\* call, whatever the publishes do.
C38_FailedConnectionCleanedUp ==
    /\ \A c \in ConnIds :
          ReadFailed(c) ~> /\ c \notin Registered
                           /\ conn[c].closed
                           /\ conn[c].write = "done"
    /\ [](running.op = "register" => ENABLED RunRegisterClient)
    /\ [](running.op = "unregister" => ENABLED RunUnregisterClient)
    /\ []((running = Select /\ \E c \in ConnIds : conn[c].pc = "registering")
             => ENABLED RunReceiveRegister)
    /\ []((running = Select /\ \E c \in ConnIds : ReadFailed(c))
             => ENABLED RunReceiveUnregister)

\* A connection whose read failed while messages were in its queue is out
\* of the registry, its queue closed, and its WritePump has ended, while
\* another connection of the user is registered.
C38_Witness ==
    \E c \in ConnIds :
        /\ conn[c].pc = "closed"
        /\ conn[c].closed
        /\ conn[c].write = "done"
        /\ c \notin Registered
        /\ conn[c].send = <<>>
        /\ Registered # {}
        /\ resp.op = "publish"

\* ------------------------------------------------------------------ C40
\* The share a committed revoke request removed.
RevokedShare(r) ==
    {s \in shares : r.op = "unshare" /\ r.status = "NoContent" /\ s.id = r.share}

\* No share of the recipient of s is left on node x or above it.
NoShareLeft(s, x) ==
    ~\E o \in shares' : /\ o.recipient_id = s.recipient_id
                        /\ o.node_id \in node_parents(nodes', x)

\* Node x comes back from a lookup or a directory listing made for user u,
\* or from the listing of what a user has shared with u.
Looked(db, u, x) ==
    \/ GetNodeIfAccessible(db, x, u) # NoNode
    \/ GetNodeByID(db, x, u) # NoNode
    \/ \E p \in NodeIds \cup {NoNode} : x \in GetNodesByParentID(db, u, p)
    \/ \E o \in Users : x \in ListDirectlySharedNodes(db, u, o)

\* Node x comes back from one of the read operations made for user u.
Observes(db, u, x) == Looked(db, u, x) \/ x \in ListFavorites(db, u)

\* C40: once a share is revoked and no other share of the recipient covers
\* the node, no read operation made for the recipient returns the shared node
\* or a node below it, the favorites listing included.
C40_RevokedNodeUnseen ==
    [][Served =>
          \A s \in RevokedShare(resp') :
              \A x \in node_children(nodes', s.node_id) :
                  NoShareLeft(s, x) => ~Observes(DBNext, s.recipient_id, x)
    ]_vars

\* What holds: the lookups, the directory listing and the listing of shared
\* nodes return none of them; the favorites listing returns those of them
\* that the recipient has marked.
RevokedNodeUnseenButFavorites ==
    [][Served =>
          \A s \in RevokedShare(resp') :
              \A x \in node_children(nodes', s.node_id) :
                  NoShareLeft(s, x) =>
                      /\ ~Looked(DBNext, s.recipient_id, x)
                      /\ x \in ListFavorites(DBNext, s.recipient_id)
                            <=> (<<s.recipient_id, x>> \in favorites
                                 /\ ~nodes[x].deleted)
    ]_vars

\* The recipient marked the shared folder as a favorite, the owner revoked
\* the share: the recipient's lookup of the folder finds nothing and the
\* recipient's favorites listing returns the folder.
C40_Witness ==
    /\ resp.op = "unshare" /\ resp.status = "NoContent"
    /\ journal[Len(journal)].event_type = "share_revoked_for_you"
    /\ LET u == journal[Len(journal)].user_id
           x == journal[Len(journal)].payload.node_id
       IN /\ GetNodeIfAccessible(DB, x, u) = NoNode
          /\ x \in ListFavorites(DB, u)
          /\ nodes[x].owner_id # u
          /\ \E k \in 1..Len(journal) :
                /\ journal[k].event_type = "favorite_added"
                /\ journal[k].user_id = u
                /\ journal[k].payload.node_id = x
====
